---------------------------- MODULE Spec2Model ----------------------------
(***************************************************************************)
(* A model of three parts of the Hermes execution engine:                  *)
(*   - TempRegAlloc, the temp-register allocator of the ARM64 JIT          *)
(*     (lib/VM/JIT/arm64/JitEmitter.h);                                    *)
(*   - the FunctionAnalysis call-graph pass                                *)
(*     (lib/Optimizer/Scalar/FunctionAnalysis.cpp);                        *)
(*   - the frame-register residency operations of the JIT Emitter.         *)
(* Each part has its own specification (SpecTRA, SpecFA, SpecEm) over the  *)
(* module's variables; the variables of the other parts stay unchanged.    *)
(***************************************************************************)
EXTENDS Integers, Sequences, FiniteSets, TLC

VARIABLES
    insts,      \* the IR of the module: instruction number -> instruction
    fnUsers,    \* Function::getUsers() of every function
    attrs,      \* the attributes of every function
    pc,         \* runOnModule: the next function to analyze
    run,        \* which run of the pass this is (1 or 2)
    ir0,        \* the IR before the first run (history)
    attrs1,     \* the attributes at the end of the first run (history)
    scoped,     \* loads put on the worklist with a known scope (history)
    visits,     \* instructions whose users were iterated (history)
    gpTemp_,    \* Emitter::gpTemp_  : TempRegAlloc over the GP temp range
    vecTemp_,   \* Emitter::vecTemp_ : TempRegAlloc over the VecD temp range
    last,       \* the last TempRegAlloc operation: its arguments, its result
                \* and the allocator it was applied to (history, for the claims)
    touchOrder, \* per pool, the allocated registers by last touch (history)
    frameRegs_, \* Emitter::frameRegs_ : FR index -> FRState
    hwRegs_,    \* Emitter::hwRegs_ : combined register index -> HWRegState
    slowPaths_, \* Emitter::slowPaths_ : the queue of slow paths
    body_,      \* labels of the emitted function body: per guarded operation,
                \* the label its guard branches to and the label bound after it
    tail_,      \* the slow-path blocks emitted after the body
    phase_,     \* "idle", "body" (emitting the body) or "done"
    lastArith,  \* the last arithBinOp: arguments and effect (history)
    roData_,    \* Emitter::roData_ : the bytes of the RO data buffer
    roDataDesc_,    \* Emitter::roDataDesc_ : one descriptor per reservation
    thunks_,    \* Emitter::thunks_ : (label, offset of the pointer in roData)
    thunkMap_,  \* Emitter::thunkMap_ : function pointer -> index in thunks_
    fp64ConstMap_,  \* Emitter::fp64ConstMap_ : bit pattern -> offset
    reserved,   \* the ranges reserveData handed out, in order (history)
    lastRO,     \* the last RO data operation: arguments and result (history)
    cb_,        \* a CodeBlock: its fields
    lastCB      \* the last CodeBlock operation: arguments and result (history)

faVars == <<insts, fnUsers, attrs, pc, run, ir0, attrs1, scoped, visits>>
traVars == <<gpTemp_, vecTemp_, last, touchOrder>>
emVars == <<frameRegs_, hwRegs_>>
jitVars == <<slowPaths_, body_, tail_, phase_, lastArith>>
roVars == <<roData_, roDataDesc_, thunks_, thunkMap_, fp64ConstMap_, reserved, lastRO>>
cbVars == <<cb_, lastCB>>
vars == <<faVars, traVars, emVars, jitVars, roVars, cbVars>>

(***************************************************************************)
(* Bounds.                                                                 *)
(***************************************************************************)
\* Number of registers in each temp pool of the model.  The code's pools
\* hold 16 registers (x0-x15, d16-d31); the allocator is written for any
\* range, and the model keeps each pool's first register and shortens it.
PoolSize == 2

(***************************************************************************)
(* Program constants.                                                      *)
(***************************************************************************)
\* kGPTemp.first
GPTempFirst == 0
\* kVecTemp.first
VecTempFirst == 16
\* Width of uint32_t: the bit positions of availBits_.
WordBits == 32

\* kGPTemp and kVecTemp, as <<first, second>> (inclusive), shortened to
\* PoolSize registers.
kGPTemp == <<GPTempFirst, GPTempFirst + PoolSize - 1>>
kVecTemp == <<VecTempFirst, VecTempFirst + PoolSize - 1>>

\* llvh::None
None == -1
\* nullptr in map_
NullNode == -1

(***************************************************************************)
(* uint32_t bit masks are modelled by the set of their set bit positions,  *)
(* a subset of 0..31: "mask & (1u << i)" is "i \in mask", "mask |= 1u<<i"  *)
(* is "mask \cup {i}", "mask &= ~(1u<<i)" is "mask \ {i}".  A bit shifted  *)
(* past position 31 is lost, as in the 32-bit arithmetic of the code.      *)
(***************************************************************************)
BitPositions == 0 .. (WordBits - 1)

\* ((1u << (last - first + 1)) - 1u) << first
bitMask32(first, lst) ==
    LET width == lst - first + 1
        low == 0 .. (width - 1)           \* (1u << width) - 1u
    IN  {b + first : b \in low} \cap BitPositions

\* llvh::findFirstSet: the position of the lowest set bit.
findFirstSet(mask) == CHOOSE b \in mask : \A c \in mask : b <= c

(***************************************************************************)
(* SimpleLRU<unsigned> (hermes/ADT/SimpleLRU.h): a list of nodes ordered   *)
(* from the least recently used (head) to the most recently used (tail).   *)
(* A node is identified by the value it holds.                             *)
(***************************************************************************)
Range(s) == {s[i] : i \in DOMAIN s}

RECURSIVE SeqWithout(_, _)
SeqWithout(s, x) ==
    IF s = <<>> THEN <<>>
    ELSE IF Head(s) = x THEN SeqWithout(Tail(s), x)
    ELSE <<Head(s)>> \o SeqWithout(Tail(s), x)

LRUAdd(lru, x) == Append(lru, x)
LRUUse(lru, node) == Append(SeqWithout(lru, node), node)
LRURemove(lru, node) == SeqWithout(lru, node)
LRULeastRecent(lru) == Head(lru)

(***************************************************************************)
(* TempRegAlloc.  An allocator is a record of the class's four fields.     *)
(***************************************************************************)
\* TempRegAlloc::TempRegAlloc(range)
TempRegAllocNew(range) ==
    [ first_ |-> range[1],
      lru_ |-> <<>>,
      map_ |-> [i \in 0 .. (range[2] - range[1]) |-> NullNode],
      availBits_ |-> bitMask32(range[1], range[2]) ]

\* A plausible slip: the preferred register is taken without looking at its
\* availability bit.
allocIndexNoAvailCheck(ra, preferred) ==
    IF preferred # None THEN preferred ELSE findFirstSet(ra.availBits_)

\* The index alloc() picks when the pool is not empty.
allocIndex(ra, preferred) ==
    IF preferred # None /\ preferred \in ra.availBits_
    THEN preferred
    ELSE findFirstSet(ra.availBits_)

\* A plausible slip: the register's node is put at the head of the LRU list.
allocLRUAtHead(lru, index) == <<index>> \o lru

\* map_[index - first_] = lru_.add(index): the list after the add.
allocLRU(lru, index) == LRUAdd(lru, index)

\* TempRegAlloc::alloc(preferred): the allocator afterwards and the result.
alloc(ra, preferred) ==
    IF ra.availBits_ = {}
    THEN [ra |-> ra, ret |-> None]
    ELSE LET index == allocIndex(ra, preferred)
         IN  [ra |-> [ra EXCEPT !.availBits_ = @ \ {index},
                                !.map_[index - ra.first_] = index,
                                !.lru_ = allocLRU(@, index)],
              ret |-> index]

\* A plausible slip: use() leaves the LRU list alone.
useNoTouch(ra, index) == ra

\* A plausible slip: use() touches the LRU list without looking at the
\* availability bit.
useNoAvailCheck(ra, index) ==
    [ra EXCEPT !.lru_ = LRUUse(@, ra.map_[index - ra.first_])]

\* TempRegAlloc::use(index)
use(ra, index) ==
    IF index \notin ra.availBits_
    THEN [ra EXCEPT !.lru_ = LRUUse(@, ra.map_[index - ra.first_])]
    ELSE ra

\* A plausible slip: free() drops the LRU node but does not give the
\* availability bit back.
freeKeepBit(ra, index) ==
    [ra EXCEPT !.lru_ = LRURemove(@, ra.map_[index - ra.first_]),
               !.map_[index - ra.first_] = NullNode]

\* TempRegAlloc::free(index)
free(ra, index) ==
    [ra EXCEPT !.availBits_ = @ \cup {index},
               !.lru_ = LRURemove(@, ra.map_[index - ra.first_]),
               !.map_[index - ra.first_] = NullNode]

\* TempRegAlloc::leastRecentlyUsed()
leastRecentlyUsed(ra) == LRULeastRecent(ra.lru_)

\* The registers of an allocator's range, and those currently allocated.
PoolOf(ra) == {ra.first_ + i : i \in DOMAIN ra.map_}
AllocatedOf(ra) == PoolOf(ra) \ ra.availBits_

(***************************************************************************)
(* The allocator specification: any sequence of alloc / use / free on the  *)
(* emitter's two allocators.  use() and free() take a register of the      *)
(* pool, free() an allocated one (its assertions); alloc() takes any       *)
(* register index of the class (HWReg::indexInClass, 0..31) or None.       *)
(***************************************************************************)
Pools == {"gp", "vec"}
PoolRA(p) == IF p = "gp" THEN gpTemp_ ELSE vecTemp_

\* The preferred registers tried: none, every register of either pool (so
\* each allocator sees registers inside and outside its own range), and the
\* highest index of a class.
PreferredVals ==
    {None} \cup {kGPTemp[1] + i : i \in 0 .. (PoolSize - 1)}
           \cup {kVecTemp[1] + i : i \in 0 .. (PoolSize - 1)}
           \cup {WordBits - 1}

SetPool(p, ra) ==
    /\ gpTemp_' = IF p = "gp" THEN ra ELSE gpTemp_
    /\ vecTemp_' = IF p = "vec" THEN ra ELSE vecTemp_

\* The history of the last operation: its name, the allocator it was applied
\* to (pool) and that allocator before the call (pre), its argument and its
\* result; held is the set of registers that alloc() had returned and free()
\* had not yet taken back when the call was made; lruFreed is the register an immediately preceding
\* free(leastRecentlyUsed()) on a full pool released, else None.
NoOp == [op |-> "none", pool |-> "gp", arg |-> None, ret |-> None,
         pre |-> TempRegAllocNew(kGPTemp), held |-> {}, lruFreed |-> None]

\* The order of last touch (alloc or use while allocated) of the registers
\* now allocated, oldest first; kept by the actions from the calls and their
\* results alone.
Touch(order, r) == Append(SeqWithout(order, r), r)

\* The module of an allocator run: no instructions, nothing analyzed.
IdleFA ==
    /\ insts = <<>> /\ ir0 = <<>>
    /\ fnUsers = <<>> /\ attrs = <<>> /\ attrs1 = <<>>
    /\ pc = 0 /\ run = 0
    /\ scoped = {} /\ visits = <<>>

\* No emitter: no frame registers, no hardware register state.
IdleEm == frameRegs_ = <<>> /\ hwRegs_ = <<>>

\* No function body is being emitted.
NoArith == [n |-> 0, sameBlock |-> FALSE]
IdleJit ==
    /\ slowPaths_ = <<>> /\ body_ = <<>> /\ tail_ = <<>>
    /\ phase_ = "idle" /\ lastArith = NoArith

\* An emitter that has reserved no RO data and registered no call.
NoRO == [op |-> "none", n |-> 0]
IdleRO ==
    /\ roData_ = <<>> /\ roDataDesc_ = <<>> /\ thunks_ = <<>>
    /\ thunkMap_ = <<>> /\ fp64ConstMap_ = <<>>
    /\ reserved = <<>> /\ lastRO = NoRO

\* No CodeBlock exists.
NoCB == [op |-> "none"]
IdleCB == cb_ = NoCB /\ lastCB = NoCB

InitTRA ==
    /\ IdleFA
    /\ IdleEm
    /\ IdleJit
    /\ IdleRO
    /\ IdleCB
    /\ gpTemp_ = TempRegAllocNew(kGPTemp)
    /\ vecTemp_ = TempRegAllocNew(kVecTemp)
    /\ last = NoOp
    /\ touchOrder = [p \in Pools |-> <<>>]

IsFull(ra) == AllocatedOf(ra) = PoolOf(ra)

Record(op, p, arg, ret) ==
    last' = [op |-> op, pool |-> p, arg |-> arg, ret |-> ret, pre |-> PoolRA(p),
             held |-> Range(touchOrder[p]),
             lruFreed |->
                 IF /\ op = "alloc" /\ last.op = "free" /\ last.pool = p
                    /\ IsFull(last.pre)
                    /\ last.arg = leastRecentlyUsed(last.pre)
                 THEN last.arg ELSE None]

TRAAlloc ==
    \E p \in Pools, preferred \in PreferredVals :
        LET r == alloc(PoolRA(p), preferred)
        IN  /\ SetPool(p, r.ra)
            /\ Record("alloc", p, preferred, r.ret)
            /\ touchOrder' = IF r.ret = None THEN touchOrder
                              ELSE [touchOrder EXCEPT ![p] = Touch(@, r.ret)]

TRAUse ==
    \E p \in Pools : \E index \in PoolOf(PoolRA(p)) :
        /\ SetPool(p, use(PoolRA(p), index))
        /\ Record("use", p, index, None)
        /\ touchOrder' = IF index \in Range(touchOrder[p])
                          THEN [touchOrder EXCEPT ![p] = Touch(@, index)]
                          ELSE touchOrder

TRAFree ==
    \E p \in Pools : \E index \in AllocatedOf(PoolRA(p)) :
        /\ SetPool(p, free(PoolRA(p), index))
        /\ Record("free", p, index, None)
        /\ touchOrder' = [touchOrder EXCEPT ![p] = SeqWithout(@, index)]

NextTRA ==
    \/ TRAAlloc /\ UNCHANGED <<faVars, emVars, jitVars, roVars, cbVars>>
    \/ TRAUse /\ UNCHANGED <<faVars, emVars, jitVars, roVars, cbVars>>
    \/ TRAFree /\ UNCHANGED <<faVars, emVars, jitVars, roVars, cbVars>>

SpecTRA == InitTRA /\ [][NextTRA]_vars

(***************************************************************************)
(* Claims about TempRegAlloc, checked under SpecTRA.                       *)
(***************************************************************************)
\* The range the allocator of pool p was constructed with.
PoolRange(p) == IF p = "gp" THEN kGPTemp[1] .. kGPTemp[2]
                ELSE kVecTemp[1] .. kVecTemp[2]

\* The free registers of an allocator: those of its range whose
\* availability bit is set.
FreeOf(ra) == PoolOf(ra) \cap ra.availBits_

LowestOf(S) == CHOOSE r \in S : \A q \in S : r <= q

\* C1..C5 are stated with the call-graph pass, below.

\* C6: alloc(preferred) on a pool with at least one free register returns
\* preferred when preferred is given and free, and otherwise the
\* lowest-numbered free register of the pool; the returned register is
\* allocated afterwards and is the most recently used entry of the LRU list.
C6_AllocPicksPreferredOrLowest ==
    (last.op = "alloc" /\ FreeOf(last.pre) # {}) =>
        LET now == PoolRA(last.pool)
            expected == IF last.arg # None /\ last.arg \in FreeOf(last.pre)
                        THEN last.arg
                        ELSE LowestOf(FreeOf(last.pre))
        IN  /\ last.ret = expected
            /\ last.ret \in AllocatedOf(now)
            /\ AllocatedOf(now) = AllocatedOf(last.pre) \cup {last.ret}
            /\ now.lru_ # <<>>
            /\ now.lru_[Len(now.lru_)] = last.ret
            /\ now.map_[last.ret - now.first_] # NullNode

\* C6 witness: an alloc whose preferred register was taken (so the lowest
\* free register was returned instead) on a pool that already held one.
C6_Witness ==
    /\ last.op = "alloc"
    /\ last.arg \in AllocatedOf(last.pre)
    /\ last.ret # None
    /\ last.ret # last.arg
    /\ Len(PoolRA(last.pool).lru_) >= 2

\* C7: alloc returns none exactly when every register of the pool is
\* allocated, and then leaves availBits_, map_ and lru_ unchanged; after the
\* caller frees leastRecentlyUsed() of a full pool, the next alloc succeeds
\* and returns that register.
C7_NoneIffPoolExhausted ==
    last.op = "alloc" =>
        /\ (last.ret = None) <=> (last.held = PoolRange(last.pool))
        /\ (last.ret = None) => (PoolRA(last.pool) = last.pre)
        /\ (last.lruFreed # None) => (last.ret = last.lruFreed)

\* C7 witness: an alloc right after free(leastRecentlyUsed()) on a full pool.
C7_Witness ==
    /\ last.op = "alloc"
    /\ last.lruFreed # None
    /\ last.ret = last.lruFreed

\* C8: alloc never returns a register that is currently allocated (returned
\* earlier and not yet freed) and never a register outside the range
\* [first, last] of its pool, whatever preferred register is passed.
C8_AllocNeverReturnsHeldOrOutside ==
    (last.op = "alloc" /\ last.ret # None) =>
        /\ last.ret \notin last.held
        /\ last.ret \in PoolRange(last.pool)

\* C8 witness: an alloc that was passed a preferred register outside its
\* pool, or one that is held, and returned a register.
C8_Witness ==
    /\ last.op = "alloc"
    /\ last.ret # None
    /\ last.held # {}
    /\ last.arg # None
    /\ \/ last.arg \notin PoolRange(last.pool)
       \/ last.arg \in last.held

\* C9: leastRecentlyUsed() is, among the allocated registers, the one whose
\* most recent alloc or use is the oldest.
C9_LeastRecentlyUsedIsOldestTouch ==
    \A p \in Pools :
        touchOrder[p] # <<>> =>
            /\ PoolRA(p).lru_ # <<>>
            /\ leastRecentlyUsed(PoolRA(p)) = Head(touchOrder[p])

\* C9 witness: use() of the register that was the least recently used one,
\* with another register allocated; it is no longer the one to spill.
C9_Witness ==
    /\ last.op = "use"
    /\ Len(last.pre.lru_) >= 2
    /\ last.arg = leastRecentlyUsed(last.pre)
    /\ leastRecentlyUsed(PoolRA(last.pool)) # last.arg


(***************************************************************************)
(*                                                                         *)
(* The FunctionAnalysis pass (lib/Optimizer/Scalar/FunctionAnalysis.cpp).  *)
(*                                                                         *)
(* The IR of a module is a window of instructions 1 .. Len(ir), in the     *)
(* order in which they were created.  An operand is an instruction of the  *)
(* window (its number) or one of the values below.  The user list of an    *)
(* instruction holds one entry per operand that uses it, in the order of   *)
(* creation of the users.  The user list of a Function is kept explicitly  *)
(* (fnUsers): setTarget() appends to it while the pass iterates over it.   *)
(*                                                                         *)
(***************************************************************************)
\* Bounds of the IR family.
NumFuncs == 3      \* functions of the module; function 0 is the global scope
NumInsts == 3      \* instructions of a freely generated window
NumVars == 1       \* frame variables

\* Operand values that are not instructions of the window.
EmptySentinel == 0     \* the EmptySentinel operand (no target / environment)
Literal == -1          \* a value that is no closure (a literal, a parameter)
ScopeA == -2           \* two scope-producing instructions outside the window
ScopeB == -3
NullScope == -4        \* nullptr: the scope is not available
\* No Function (the target operand holds EmptySentinel).
NoFunc == -1

Funcs == 0 .. (NumFuncs - 1)
Vars == 0 .. (NumVars - 1)

\* Function::isGlobalScope()
isGlobalScope(F) == F = 0
\* F->getParentScopeParam()->hasUsers(): odd functions read their parent scope.
parentScopeParamHasUsers(F) == F % 2 = 1
\* F->getNewTargetParam()->hasUsers(): functions from 2 on read new.target.
newTargetParamHasUsers(F) == F >= 2

\* An instruction; the fields a kind does not have keep these values.
BlankInst ==
    [ kind |-> "None", functionCode |-> NoFunc, scope |-> EmptySentinel,
      value |-> EmptySentinel, variable |-> 0, canBeObject |-> FALSE,
      callee |-> EmptySentinel, args |-> <<>>, newTarget |-> EmptySentinel,
      target |-> NoFunc, environment |-> EmptySentinel ]

\* BaseCreateCallableInst(scope, functionCode)
CreateInst(F, scope) ==
    [BlankInst EXCEPT !.kind = "CreateCallable", !.functionCode = F, !.scope = scope]
\* BaseCallInst(callee, target, environment, newTarget, args)
CallInst(callee, target, env, newTarget, args) ==
    [BlankInst EXCEPT !.kind = "Call", !.callee = callee, !.target = target,
                      !.environment = env, !.newTarget = newTarget, !.args = args]
\* An instruction for which isConstructionSetup(user, closure) holds.
ConstructionSetupInst(v) ==
    [BlankInst EXCEPT !.kind = "ConstructionSetup", !.value = v]
GetClosureScopeInst(v) ==
    [BlankInst EXCEPT !.kind = "GetClosureScope", !.value = v]
UnionNarrowTrustedInst(v) ==
    [BlankInst EXCEPT !.kind = "UnionNarrowTrusted", !.value = v, !.canBeObject = TRUE]
CheckedTypeCastInst(v, obj) ==
    [BlankInst EXCEPT !.kind = "CheckedTypeCast", !.value = v, !.canBeObject = obj]
StoreFrameInst(v, scope, var) ==
    [BlankInst EXCEPT !.kind = "StoreFrame", !.value = v, !.scope = scope, !.variable = var]
LoadFrameInst(scope, var) ==
    [BlankInst EXCEPT !.kind = "LoadFrame", !.scope = scope, !.variable = var]
\* Any other instruction: it uses a value (value) or a Function (functionCode).
OtherInst(v, F) ==
    [BlankInst EXCEPT !.kind = "Other", !.value = v, !.functionCode = F]

Insts(ir) == 1 .. Len(ir)

\* The operands of an instruction through which it uses a value, in order.
ValueOperands(inst) ==
    IF inst.kind = "Call"
    THEN <<inst.callee, inst.environment, inst.newTarget>> \o inst.args
    ELSE <<inst.value, inst.scope>>

RECURSIVE CountIn(_, _)
CountIn(s, v) ==
    IF s = <<>> THEN 0
    ELSE (IF Head(s) = v THEN 1 ELSE 0) + CountIn(Tail(s), v)

Repeat(x, n) == [k \in 1 .. n |-> x]

\* Value::getUsers() of instruction v: one entry per use, users in order.
RECURSIVE UsersFrom(_, _, _)
UsersFrom(ir, v, i) ==
    IF i > Len(ir) THEN <<>>
    ELSE Repeat(i, CountIn(ValueOperands(ir[i]), v)) \o UsersFrom(ir, v, i + 1)

getUsers(ir, v) == UsersFrom(ir, v, 1)

\* Variable::getUsers(): the loads and stores of the variable, in order.
RECURSIVE VarUsersFrom(_, _, _)
VarUsersFrom(ir, var, i) ==
    IF i > Len(ir) THEN <<>>
    ELSE (IF ir[i].kind \in {"StoreFrame", "LoadFrame"} /\ ir[i].variable = var
          THEN <<i>> ELSE <<>>) \o VarUsersFrom(ir, var, i + 1)

getVarUsers(ir, var) == VarUsersFrom(ir, var, 1)

\* isStoreOnceVariable (Optimizer/Scalar/Utils): exactly one store.
isStoreOnceVariable(ir, var) ==
    Cardinality({i \in Insts(ir) :
                    ir[i].kind = "StoreFrame" /\ ir[i].variable = var}) = 1

\* Function::getUsers() before the pass: the instructions that have the
\* Function as an operand (functionCode of a create or of another
\* instruction, target of a call), in order.
RECURSIVE FuncUsersFrom(_, _, _)
FuncUsersFrom(ir, F, i) ==
    IF i > Len(ir) THEN <<>>
    ELSE (IF ir[i].functionCode = F \/ ir[i].target = F THEN <<i>> ELSE <<>>)
         \o FuncUsersFrom(ir, F, i + 1)

\* Value::replaceAllUsesWith: every operand equal to old becomes new.
Subst(x, old, new) == IF x = old THEN new ELSE x
replaceAllUsesWith(ir, old, new) ==
    [i \in Insts(ir) |->
        [ir[i] EXCEPT !.scope = Subst(@, old, new),
                      !.value = Subst(@, old, new),
                      !.callee = Subst(@, old, new),
                      !.environment = Subst(@, old, new),
                      !.newTarget = Subst(@, old, new),
                      !.args = [k \in DOMAIN @ |-> Subst(@[k], old, new)]]]

(***************************************************************************)
(* The state the pass works on: the IR, the user lists of the functions,   *)
(* the attributes, and (history) the loads that were put on the worklist   *)
(* with a known scope.                                                     *)
(***************************************************************************)
\* A plausible slip: the environment is populated and the target is not.
registerCallsiteEnvOnly(st, call, create, scope) ==
    LET F == st.ir[create].functionCode
    IN  IF /\ scope # NullScope
           /\ st.ir[call].environment = EmptySentinel
           /\ parentScopeParamHasUsers(F)
        THEN [st EXCEPT !.ir[call].environment = scope]
        ELSE st

\* A plausible slip: the environment is populated whether or not the
\* function uses its parent scope.
registerCallsiteAlwaysEnv(st, call, create, scope) ==
    LET F == st.ir[create].functionCode
        st1 == IF st.ir[call].target = NoFunc
               THEN [st EXCEPT !.ir[call].target = F,
                               !.fnUsers[F] = Append(@, call)]
               ELSE st
    IN  IF scope # NullScope /\ st1.ir[call].environment = EmptySentinel
        THEN [st1 EXCEPT !.ir[call].environment = scope]
        ELSE st1

\* A plausible slip: the target is set whether or not it was empty, so a call
\* that is a user of the function already is put on its user list again.
registerCallsiteAlwaysTarget(st, call, create, scope) ==
    LET F == st.ir[create].functionCode
        st1 == [st EXCEPT !.ir[call].target = F,
                          !.fnUsers[F] = Append(@, call)]
    IN  IF /\ scope # NullScope
           /\ st1.ir[call].environment = EmptySentinel
           /\ parentScopeParamHasUsers(F)
        THEN [st1 EXCEPT !.ir[call].environment = scope]
        ELSE st1

\* A plausible slip: the environment is populated whether or not it was
\* empty.
registerCallsiteOverwriteEnv(st, call, create, scope) ==
    LET F == st.ir[create].functionCode
        st1 == IF st.ir[call].target = NoFunc
               THEN [st EXCEPT !.ir[call].target = F,
                               !.fnUsers[F] = Append(@, call)]
               ELSE st
    IN  IF scope # NullScope /\ parentScopeParamHasUsers(F)
        THEN [st1 EXCEPT !.ir[call].environment = scope]
        ELSE st1

\* registerCallsite(call, callee, scope)
registerCallsite(st, call, create, scope) ==
    LET F == st.ir[create].functionCode
        st1 == IF st.ir[call].target = NoFunc
               THEN [st EXCEPT !.ir[call].target = F,
                               !.fnUsers[F] = Append(@, call)]
               ELSE st
    IN  IF /\ scope # NullScope
           /\ st1.ir[call].environment = EmptySentinel
           /\ parentScopeParamHasUsers(F)
        THEN [st1 EXCEPT !.ir[call].environment = scope]
        ELSE st1

\* A plausible slip: the arguments of the call are not looked at.
canEscapeThroughCallNoArgs(ir, C, F, CI) ==
    \/ ir[CI].callee # C
    \/ (C = ir[CI].newTarget /\ newTargetParamHasUsers(F))

\* A plausible slip: a closure passed as new.target is not looked at.
canEscapeThroughCallNoNewTarget(ir, C, F, CI) ==
    \/ ir[CI].callee # C
    \/ \E i \in DOMAIN ir[CI].args : C = ir[CI].args[i]

\* canEscapeThroughCall(C, F, CI)
canEscapeThroughCall(ir, C, F, CI) ==
    \/ ir[CI].callee # C
    \/ \E i \in DOMAIN ir[CI].args : C = ir[CI].args[i]
    \/ (C = ir[CI].newTarget /\ newTargetParamHasUsers(F))

\* A plausible slip: the attribute is written for every function of the
\* module.
SetKnownModuleWide(st, F, b) ==
    [st EXCEPT !.attrs =
        [G \in DOMAIN @ |-> [@[G] EXCEPT !.allCallsitesKnownInStrictMode = b]]]

SetKnown(st, F, b) ==
    [st EXCEPT !.attrs[F].allCallsitesKnownInStrictMode = b]

\* A plausible slip: every load is pushed with its own scope, whether or not
\* the scope of the store is the known scope.
RECURSIVE LoadsOfAlwaysScope(_, _, _, _)
LoadsOfAlwaysScope(ir, varUsers, propagateScope, k) ==
    IF k > Len(varUsers) THEN <<>>
    ELSE LET u == varUsers[k]
         IN  (IF ir[u].kind = "LoadFrame"
              THEN <<[closure |-> u, scope |-> ir[u].scope]>>
              ELSE <<>>)
             \o LoadsOfAlwaysScope(ir, varUsers, propagateScope, k + 1)

\* The worklist entries pushed for the loads of var.
RECURSIVE LoadsOf(_, _, _, _)
LoadsOf(ir, varUsers, propagateScope, k) ==
    IF k > Len(varUsers) THEN <<>>
    ELSE LET u == varUsers[k]
         IN  (IF ir[u].kind = "LoadFrame"
              THEN <<[closure |-> u,
                      scope |-> IF propagateScope THEN ir[u].scope ELSE NullScope]>>
              ELSE <<>>)
             \o LoadsOf(ir, varUsers, propagateScope, k + 1)

\* One iteration of the loop over closureInst->getUsers(): the state and the
\* worklist after closureUser has been looked at.
VisitUser(sw, create, closureInst, knownScope, closureUser) ==
    LET st == sw.st
        ir == st.ir
        F == ir[create].functionCode
        u == ir[closureUser]
    IN  CASE u.kind = "Call" ->
               LET st1 == IF canEscapeThroughCall(ir, closureInst, F, closureUser)
                          THEN SetKnown(st, F, FALSE) ELSE st
                   st2 == IF u.callee = closureInst
                          THEN registerCallsite(st1, closureUser, create, knownScope)
                          ELSE st1
               IN  [sw EXCEPT !.st = st2]
          [] u.kind = "ConstructionSetup" -> sw
          [] u.kind = "GetClosureScope" ->
               IF knownScope # NullScope
               THEN [sw EXCEPT !.st.ir = replaceAllUsesWith(ir, closureUser, knownScope)]
               ELSE sw
          [] u.kind = "UnionNarrowTrusted" ->
               [sw EXCEPT !.wl = Append(@, [closure |-> closureUser, scope |-> knownScope])]
          [] u.kind = "CheckedTypeCast" /\ u.canBeObject ->
               [sw EXCEPT !.wl = Append(@, [closure |-> closureUser, scope |-> knownScope])]
          [] u.kind = "StoreFrame" ->
               IF ~isStoreOnceVariable(ir, u.variable)
               THEN [sw EXCEPT !.st = SetKnown(st, F, FALSE)]
               ELSE LET propagateScope == u.scope = knownScope
                        pushed == LoadsOf(ir, getVarUsers(ir, u.variable),
                                          propagateScope, 1)
                    IN  [sw EXCEPT
                           !.wl = @ \o pushed,
                           !.st.scoped = @ \cup {pushed[k].closure : k \in
                                  {j \in DOMAIN pushed : pushed[j].scope # NullScope}}]
          [] OTHER -> [sw EXCEPT !.st = SetKnown(st, F, FALSE)]

RECURSIVE VisitUsers(_, _, _, _, _, _)
VisitUsers(sw, create, closureInst, knownScope, users, k) ==
    IF k > Len(users) THEN sw
    ELSE VisitUsers(VisitUser(sw, create, closureInst, knownScope, users[k]),
                    create, closureInst, knownScope, users, k + 1)

\* History: visits holds, for each analyzeCreateCallable call of the current
\* analyzeFunctionCallsites, the instructions whose users were iterated.
LogVisit(log, closureInst) ==
    [log EXCEPT ![Len(log)] = Append(log[Len(log)], closureInst)]

\* The while loop of analyzeCreateCallable over the worklist.
RECURSIVE RunWorklist(_, _, _)
RunWorklist(sw, visited, create) ==
    IF sw.wl = <<>> THEN sw.st
    ELSE LET top == sw.wl[Len(sw.wl)]                    \* worklist.back()
             rest == SubSeq(sw.wl, 1, Len(sw.wl) - 1)    \* pop_back_val()
             closureInst == top.closure
             knownScope == top.scope
         IN  IF closureInst \in visited
             THEN RunWorklist([sw EXCEPT !.wl = rest], visited, create)
             ELSE RunWorklist(
                      VisitUsers([sw EXCEPT !.wl = rest,
                                            !.st.visits = LogVisit(@, closureInst)],
                                 create, closureInst, knownScope,
                                 getUsers(sw.st.ir, closureInst), 1),
                      visited \cup {closureInst}, create)

\* analyzeCreateCallable(create)
analyzeCreateCallable(st, create) ==
    RunWorklist([st |-> [st EXCEPT !.visits = Append(@, <<>>)],
                 wl |-> <<[closure |-> create, scope |-> st.ir[create].scope]>>],
                {}, create)

\* The loop of analyzeFunctionCallsites over F->getUsers(); the list may grow
\* while the loop runs, and its length is read again at every iteration.
RECURSIVE VisitFuncUsers(_, _, _)
VisitFuncUsers(st, F, i) ==
    IF i > Len(st.fnUsers[F]) THEN st
    ELSE LET user == st.fnUsers[F][i]
             kind == st.ir[user].kind
         IN  CASE kind = "CreateCallable" ->
                    VisitFuncUsers(analyzeCreateCallable(st, user), F, i + 1)
               [] kind = "Call" -> VisitFuncUsers(st, F, i + 1)
               [] OTHER -> VisitFuncUsers(SetKnown(st, F, FALSE), F, i + 1)

\* A plausible slip: isa<Instruction> in place of isa<BaseCallInst>, so any
\* user counts as a call.
anyUserIsInst(before, after, F) == after.fnUsers[F] # <<>>

\* A plausible slip: the users are those the function had when the analysis
\* started, so the calls bound by the analysis are not counted.
anyUserIsCallStale(before, after, F) ==
    \E k \in DOMAIN before.fnUsers[F] :
        before.ir[before.fnUsers[F][k]].kind = "Call"

\* llvh::any_of(F->getUsers(), isa<BaseCallInst>) at the end of the analysis.
anyUserIsCall(before, after, F) ==
    \E k \in DOMAIN after.fnUsers[F] :
        after.ir[after.fnUsers[F][k]].kind = "Call"

\* analyzeFunctionCallsites(F)
analyzeFunctionCallsites(st, F) ==
    LET st1 == SetKnown([st EXCEPT !.visits = <<>>], F, TRUE)
        st2 == IF isGlobalScope(F) THEN SetKnown(st1, F, FALSE) ELSE st1
        st3 == VisitFuncUsers(st2, F, 1)
    IN  IF st3.attrs[F].allCallsitesKnownInStrictMode
        THEN [st3 EXCEPT !.attrs[F].unreachable = ~anyUserIsCall(st, st3, F)]
        ELSE st3


(***************************************************************************)
(* The modules the pass is run on.  Instructions are generated in order of *)
(* creation: an operand is a value outside the window or an earlier        *)
(* instruction of the fitting type (a closure-valued instruction where a   *)
(* closure is used, a GetClosureScopeInst where a scope is used).          *)
(***************************************************************************)
\* The functions a create instruction can name: all but the global scope.
Creatable == Funcs \ {0}

ClosureValued(p) ==
    {i \in Insts(p) : p[i].kind \in
        {"CreateCallable", "UnionNarrowTrusted", "CheckedTypeCast", "LoadFrame"}}
ScopeValued(p) ==
    {ScopeA, ScopeB} \cup {i \in Insts(p) : p[i].kind = "GetClosureScope"}

\* The calls tried.  A call is a plain call or a construct call (newTarget is
\* the callee); it has no argument or one closure argument; its target and
\* environment are empty, or one of the two is already bound.
CallMenu(p) ==
    LET callees == ClosureValued(p) \cup {Literal}
        argss == {<<>>} \cup {<<c>> : c \in ClosureValued(p)}
        bound == {<<NoFunc, EmptySentinel>>}
                 \cup {<<F, EmptySentinel>> : F \in Creatable}
                 \cup {<<NoFunc, sc>> : sc \in ScopeValued(p) \ {ScopeA}}
    IN  UNION {{CallInst(c, b[1], b[2], nt, a) :
                   a \in argss, b \in bound, nt \in {Literal, c}} : c \in callees}

\* The instructions that can follow the instructions p.
Menu(p) ==
    {CreateInst(F, sc) : F \in Creatable, sc \in ScopeValued(p)}
    \cup CallMenu(p)
    \cup {ConstructionSetupInst(c) : c \in ClosureValued(p)}
    \cup {GetClosureScopeInst(c) : c \in ClosureValued(p)}
    \cup {UnionNarrowTrustedInst(c) : c \in ClosureValued(p)}
    \cup {CheckedTypeCastInst(c, b) : c \in ClosureValued(p), b \in BOOLEAN}
    \cup {StoreFrameInst(c, sc, v) :
            c \in ClosureValued(p) \cup {Literal}, sc \in ScopeValued(p), v \in Vars}
    \cup {LoadFrameInst(sc, v) : sc \in ScopeValued(p), v \in Vars}
    \cup {OtherInst(c, NoFunc) : c \in ClosureValued(p)}
    \cup {OtherInst(Literal, F) : F \in Funcs}

RECURSIVE Extend(_, _)
Extend(P, n) ==
    IF n = 0 THEN P
    ELSE Extend(UNION {{Append(p, x) : x \in Menu(p)} : p \in P}, n - 1)

\* Windows of n instructions that start with a create instruction.
FreeWindows(n) ==
    Extend({<<CreateInst(F, ScopeA)>> : F \in Creatable}, n - 1)

\* Windows in which a closure is stored to a variable and loaded back: a
\* create, a GetClosureScopeInst of it, a store of the closure, a load of the
\* variable, and n - 2 instructions more.
FlowWindows(n) ==
    Extend({<<CreateInst(F, ScopeA), GetClosureScopeInst(1),
              StoreFrameInst(1, s1, 0), LoadFrameInst(s2, 0)>> :
                F \in Creatable, s1 \in {ScopeA, ScopeB, 2}, s2 \in {ScopeA, ScopeB, 2}},
           n - 2)

Windows(n) == FreeWindows(n) \cup FlowWindows(n)

FalseAttrs == [allCallsitesKnownInStrictMode |-> FALSE, unreachable |-> FALSE]
TrueAttrs == [allCallsitesKnownInStrictMode |-> TRUE, unreachable |-> TRUE]

\* The allocators of a pass run: as constructed, never used.
IdleTRA ==
    /\ gpTemp_ = TempRegAllocNew(kGPTemp)
    /\ vecTemp_ = TempRegAllocNew(kVecTemp)
    /\ last = NoOp
    /\ touchOrder = [p \in Pools |-> <<>>]

\* Before the pass: any window; the attributes are those of a fresh module
\* (all false) or all set.
InitFA ==
    /\ IdleTRA
    /\ IdleEm
    /\ IdleJit
    /\ IdleRO
    /\ IdleCB
    /\ insts \in Windows(NumInsts)
    /\ ir0 = insts
    /\ fnUsers = [F \in Funcs |-> FuncUsersFrom(insts, F, 1)]
    /\ attrs \in {[F \in Funcs |-> FalseAttrs], [F \in Funcs |-> TrueAttrs]}
    /\ attrs1 = attrs
    /\ pc = 0
    /\ run = 1
    /\ scoped = {}
    /\ visits = <<>>

\* One iteration of the loop of runOnModule: analyzeFunctionCallsites(&F).
FAAnalyze ==
    /\ pc < NumFuncs
    /\ LET st == analyzeFunctionCallsites(
                     [ir |-> insts, fnUsers |-> fnUsers, attrs |-> attrs,
                      scoped |-> scoped, visits |-> visits], pc)
       IN  /\ insts' = st.ir
           /\ fnUsers' = st.fnUsers
           /\ attrs' = st.attrs
           /\ scoped' = st.scoped
           /\ visits' = st.visits
    /\ pc' = pc + 1
    /\ UNCHANGED <<run, ir0, attrs1>>

\* The pass is run a second time on the module its first run produced.
FARunAgain ==
    /\ pc = NumFuncs
    /\ run = 1
    /\ run' = 2
    /\ pc' = 0
    /\ attrs1' = attrs
    /\ UNCHANGED <<insts, fnUsers, attrs, ir0, scoped, visits>>

NextFA ==
    \/ FAAnalyze /\ UNCHANGED <<traVars, emVars, jitVars, roVars, cbVars>>
    \/ FARunAgain /\ UNCHANGED <<traVars, emVars, jitVars, roVars, cbVars>>

SpecFA == InitFA /\ [][NextFA]_vars


(***************************************************************************)
(* Claims about the FunctionAnalysis pass, checked under SpecFA.           *)
(***************************************************************************)
Casts == {"UnionNarrowTrusted", "CheckedTypeCast"}

\* The instructions reached by the closure flow of a create instruction:
\* the create itself, the casts of a reached instruction whose result can be
\* an object, and the loads of a store-once variable a reached instruction
\* is stored to.
FlowStep(irX, S) ==
    S \cup {u \in Insts(irX) :
               /\ irX[u].kind \in Casts
               /\ irX[u].canBeObject
               /\ irX[u].value \in S}
      \cup {l \in Insts(irX) :
               /\ irX[l].kind = "LoadFrame"
               /\ \E st \in Insts(irX) :
                     /\ irX[st].kind = "StoreFrame"
                     /\ irX[st].value \in S
                     /\ irX[st].variable = irX[l].variable
                     /\ isStoreOnceVariable(irX, irX[st].variable)}

RECURSIVE FlowFrom(_, _)
FlowFrom(irX, S) ==
    IF FlowStep(irX, S) = S THEN S ELSE FlowFrom(irX, FlowStep(irX, S))

Flow(irX, create) == FlowFrom(irX, {create})

Creates(irX) == {i \in Insts(irX) : irX[i].kind = "CreateCallable"}
CreatesOf(irX, F) == {i \in Creates(irX) : irX[i].functionCode = F}
Calls(irX) == {i \in Insts(irX) : irX[i].kind = "Call"}

\* The closure-typed operands of a call.
UsesAsClosure(inst, c) ==
    \/ inst.callee = c
    \/ inst.newTarget = c
    \/ \E k \in DOMAIN inst.args : inst.args[k] = c

\* analyzeFunctionCallsites(F) has returned at least once.
Analyzed(F) == run = 2 \/ (run = 1 /\ F < pc)

\* C1: after analyzeFunctionCallsites(F), if F.allCallsitesKnownInStrictMode
\* is true, every call that has target == F, or that uses an instruction
\* reached by the closure flow of a create instruction of F, has a target
\* that is not EmptySentinel.
C1_KnownCallsitesHaveTarget ==
    \A F \in Funcs :
        (Analyzed(F) /\ attrs[F].allCallsitesKnownInStrictMode) =>
            \A call \in Calls(insts) :
                (\/ insts[call].target = F
                 \/ \E create \in CreatesOf(insts, F) :
                       \E c \in Flow(insts, create) :
                           UsesAsClosure(insts[call], c))
                => insts[call].target # NoFunc

\* C1 witness: all call sites of an analyzed function are known, and a call
\* whose callee is a load or a cast reached by the flow got its target from
\* the pass.
C1_Witness ==
    \E F \in Funcs :
        /\ Analyzed(F)
        /\ attrs[F].allCallsitesKnownInStrictMode
        /\ \E create \in CreatesOf(insts, F) :
              \E c \in Flow(insts, create) \ {create} :
                  \E call \in Calls(insts) :
                      /\ insts[call].callee = c
                      /\ ir0[call].target = NoFunc
                      /\ insts[call].target = F

\* The instruction a reached instruction has its value from, casts removed:
\* the create instruction or a load.
RECURSIVE Root(_, _)
Root(irX, c) ==
    IF irX[c].kind \in Casts THEN Root(irX, irX[c].value) ELSE c

\* The scope is known at a reached instruction: it is the scope operand of
\* the create, or of the load when the load was put on the worklist with it.
ScopeKnownAt(irX, c) ==
    \/ irX[Root(irX, c)].kind = "CreateCallable"
    \/ Root(irX, c) \in scoped

\* C2: a call whose callee is reached by the closure flow of a create
\* instruction, and whose target and environment were EmptySentinel before
\* the pass, has target == create.functionCode after it; its environment is
\* the known scope exactly when the scope at the callee is known and the
\* target's parentScopeParam has users, and stays EmptySentinel otherwise.
C2_ReachedCallIsBound ==
    \A create \in Creates(insts) :
        Analyzed(insts[create].functionCode) =>
            \A call \in Calls(insts) :
                (/\ insts[call].callee \in Flow(insts, create)
                 /\ ir0[call].target = NoFunc
                 /\ ir0[call].environment = EmptySentinel)
                =>
                LET F == insts[create].functionCode
                    c == insts[call].callee
                IN  /\ insts[call].target = F
                    /\ insts[call].environment =
                          IF ScopeKnownAt(insts, c) /\ parentScopeParamHasUsers(F)
                          THEN insts[Root(insts, c)].scope
                          ELSE EmptySentinel

\* C2 witness: a call through the load of a store-once variable got the
\* load's scope as its environment.
C2_Witness ==
    \E create \in Creates(insts) :
        \E call \in Calls(insts) :
            LET c == insts[call].callee
            IN  /\ Analyzed(insts[create].functionCode)
                /\ c \in Flow(insts, create)
                /\ insts[Root(insts, c)].kind = "LoadFrame"
                /\ ir0[call].target = NoFunc
                /\ ir0[call].environment = EmptySentinel
                /\ insts[call].environment = insts[Root(insts, c)].scope

\* c escapes through the call: the call does not call c, or passes c as an
\* argument, or passes c as new.target to a function that reads new.target.
EscapesThrough(inst, c, F) ==
    \/ inst.callee # c
    \/ \E k \in DOMAIN inst.args : inst.args[k] = c
    \/ (inst.newTarget = c /\ newTargetParamHasUsers(F))

\* C3 as stated: if an instruction c carrying F's closure is used by a call
\* and escapes through it, F.allCallsitesKnownInStrictMode is false after the
\* pass; and when the callee is not c the call's target is left unchanged.
C3_Original ==
    \A F \in Funcs :
        Analyzed(F) =>
            \A create \in CreatesOf(insts, F) :
                \A c \in Flow(insts, create) :
                    \A call \in Calls(insts) :
                        (UsesAsClosure(insts[call], c)
                         /\ EscapesThrough(insts[call], c, F))
                        =>
                        /\ ~attrs[F].allCallsitesKnownInStrictMode
                        /\ (insts[call].callee # c =>
                                insts[call].target = ir0[call].target)

\* C3 as amended: ... and when the callee is not c the call's target is left
\* unchanged, unless it was EmptySentinel and the callee is itself reached by
\* the closure flow of a create instruction: then the target is the function
\* of that create instruction.
C3_EscapeClearsKnown ==
    \A F \in Funcs :
        Analyzed(F) =>
            \A create \in CreatesOf(insts, F) :
                \A c \in Flow(insts, create) :
                    \A call \in Calls(insts) :
                        (UsesAsClosure(insts[call], c)
                         /\ EscapesThrough(insts[call], c, F))
                        =>
                        /\ ~attrs[F].allCallsitesKnownInStrictMode
                        /\ (insts[call].callee # c =>
                              \/ insts[call].target = ir0[call].target
                              \/ /\ ir0[call].target = NoFunc
                                 /\ \E other \in Creates(insts) :
                                       /\ insts[call].callee \in Flow(insts, other)
                                       /\ insts[call].target =
                                              insts[other].functionCode)

\* C3 witness: the closure is only passed as an argument of a call to another
\* value; the pass is over, the attribute is false and the target is as it
\* was.
C3_Witness ==
    /\ run = 1 /\ pc = NumFuncs
    /\ \E create \in Creates(insts) :
          \E call \in Calls(insts) :
              /\ insts[call].callee = Literal
              /\ insts[call].args = <<create>>
              /\ insts[call].target = ir0[call].target
              /\ ~attrs[insts[create].functionCode].allCallsitesKnownInStrictMode
              /\ \A u \in Insts(insts) :
                    (u # call /\ insts[u].kind # "CreateCallable")
                        => insts[u].kind = "LoadFrame"

\* C4: after analyzeFunctionCallsites(F), if allCallsitesKnownInStrictMode is
\* true and no call has F as its target (calls bound by the analysis
\* counted), F.unreachable is true; a function other than the global scope
\* whose only user is a create instruction without users is unreachable.
C4_NoCallMeansUnreachable ==
    \A F \in Funcs :
        Analyzed(F) =>
            /\ (/\ attrs[F].allCallsitesKnownInStrictMode
                /\ ~\E call \in Calls(insts) : insts[call].target = F)
               => attrs[F].unreachable
            /\ (/\ ~isGlobalScope(F)
                /\ \E create \in CreatesOf(ir0, F) :
                      /\ FuncUsersFrom(ir0, F, 1) = <<create>>
                      /\ getUsers(ir0, create) = <<>>)
               => attrs[F].unreachable

\* C4 witness: a function whose only user is a create instruction without
\* users has been analyzed from attributes that were all false.
C4_Witness ==
    \E F \in Funcs :
        /\ Analyzed(F)
        /\ ~isGlobalScope(F)
        /\ \E create \in CreatesOf(ir0, F) :
              /\ FuncUsersFrom(ir0, F, 1) = <<create>>
              /\ getUsers(ir0, create) = <<>>
        /\ attrs[F].unreachable
        /\ \E G \in Funcs : G # F /\ ~attrs[G].unreachable

\* The scope operands of an instruction.
ScopeOperands(inst) == {inst.scope, inst.environment}

\* C5: a second run of the pass on the module its first run produced leaves
\* allCallsitesKnownInStrictMode and unreachable of every function as the
\* first run left them.
C5_SecondRunKeepsAttributes ==
    run = 2 => \A F \in Funcs : F < pc => attrs[F] = attrs1[F]

\* C5 witness: the second run is over, and the first run bound a call target
\* and replaced a use of a GetClosureScopeInst.
C5_Witness ==
    /\ run = 2
    /\ pc = NumFuncs
    /\ \E call \in Calls(insts) :
          ir0[call].target = NoFunc /\ insts[call].target # NoFunc
    /\ \E i \in Insts(insts) : \E g \in Insts(insts) :
          /\ ir0[g].kind = "GetClosureScope"
          /\ g \in ScopeOperands(ir0[i])
          /\ g \notin ScopeOperands(insts[i])


(***************************************************************************)
(* The frame-register residency operations of the Emitter.  FR, HWReg,     *)
(* FRState, HWRegState, the register ranges and the Emitter's members are  *)
(* those of JitEmitter.h; the bodies of the operations declared there      *)
(* follow the design description of the residency operations ("Frame-      *)
(* Register State & Residency").                                           *)
(***************************************************************************)
\* Number of frame registers of the function being compiled.
NumFRs == 2

\* FR::kInvalid (UINT32_MAX)
kInvalid == -1
\* HWReg() : index_(0xFF)
InvalidHWReg == 255
\* HWReg(index, VecD) : index_(index + 32)
VecDBase == 32
\* kGPSaved.first and kVecSaved.first
GPSavedFirst == 22
VecSavedFirst == 8

FRs == 0 .. (NumFRs - 1)

gpX(index) == index
vecD(index) == index + VecDBase
\* A plausible slip: the test of isValid() (any register index) in place of
\* the test for the GpX class.
isGpXAnyClass(hw) == hw < VecDBase + VecDBase
isGpX(hw) == hw < VecDBase
indexInClass(hw) == hw % VecDBase

TempGpX == {gpX(i) : i \in kGPTemp[1] .. kGPTemp[2]}
TempVecD == {vecD(i) : i \in kVecTemp[1] .. kVecTemp[2]}
isTemp(hw) == hw \in TempGpX \cup TempVecD

\* The global register the pre-pass may give frame register fr: none, or
\* a callee-saved register of either class (one per frame register).
GlobalRegsFor(fr) == {InvalidHWReg, gpX(GPSavedFirst + fr), vecD(VecSavedFirst + fr)}

\* The hardware registers of the model: the temp pools and the callee-saved
\* registers a frame register can have.
HWRegs == TempGpX \cup TempVecD
          \cup UNION {GlobalRegsFor(fr) \ {InvalidHWReg} : fr \in FRs}

\* enum class FRType: Number, and UnknownPtr = Union | Unknown | Pointer.
FRTypeNumber == 2
FRTypeUnknownPtr == 25

\* struct FRState, as function entry leaves it: the types are the struct's
\* defaults; no local register; the initial value is in the frame slot and
\* in the global register when there is one.
FRStateNew(globalReg) ==
    [globalType |-> FRTypeUnknownPtr,
     localType |-> FRTypeUnknownPtr,
     globalReg |-> globalReg,
     localGpX |-> InvalidHWReg,
     localVecD |-> InvalidHWReg,
     frameUpToDate |-> TRUE,
     globalRegUpToDate |-> globalReg # InvalidHWReg]

\* struct HWRegState
HWRegStateNew == [contains |-> kInvalid]

\* The Emitter's members, as one value the operations take and return.
EmState ==
    [frameRegs |-> frameRegs_, hwRegs |-> hwRegs_,
     gpTemp |-> gpTemp_, vecTemp |-> vecTemp_]

LocalsOf(frs) == {frs.localGpX, frs.localVecD} \ {InvalidHWReg}

\* hw is a local register of fr, and the latest value of fr is neither in
\* another local register, nor in the global register, nor in the frame.
SoleUpToDateHome(em, hw, fr) ==
    LET frs == em.frameRegs[fr]
    IN  /\ LocalsOf(frs) = {hw}
        /\ ~frs.frameUpToDate
        /\ ~(frs.globalReg # InvalidHWReg /\ frs.globalRegUpToDate)

\* syncToMem(fr): if not frameUpToDate, store the latest home to the frame
\* slot, then set the flag.
syncToMem(em, fr) ==
    IF em.frameRegs[fr].frameUpToDate THEN em
    ELSE [em EXCEPT !.frameRegs[fr].frameUpToDate = TRUE]

\* Give a temp register back to its allocator.
freeTemp(em, hw) ==
    IF hw \in TempGpX /\ indexInClass(hw) \in AllocatedOf(em.gpTemp)
    THEN [em EXCEPT !.gpTemp = free(@, indexInClass(hw))]
    ELSE IF hw \in TempVecD /\ indexInClass(hw) \in AllocatedOf(em.vecTemp)
    THEN [em EXCEPT !.vecTemp = free(@, indexInClass(hw))]
    ELSE em

\* Break the association of a local register and the frame register in it.
disassociate(em, hw) ==
    LET fr == em.hwRegs[hw].contains
    IN  IF fr = kInvalid THEN em
        ELSE [em EXCEPT
                !.hwRegs[hw].contains = kInvalid,
                !.frameRegs[fr].localGpX = IF @ = hw THEN InvalidHWReg ELSE @,
                !.frameRegs[fr].localVecD = IF @ = hw THEN InvalidHWReg ELSE @]

\* A plausible slip: the register is disassociated without a look at whether
\* it is the sole up-to-date home.
freeRegNoSync(em, hw) ==
    IF hw = InvalidHWReg THEN em ELSE freeTemp(disassociate(em, hw), hw)

\* freeReg(hw): disassociate hw from whatever FR it held, after syncing if it
\* was the sole up-to-date home.
freeReg(em, hw) ==
    IF hw = InvalidHWReg THEN em
    ELSE LET fr == em.hwRegs[hw].contains
             synced == IF fr # kInvalid /\ SoleUpToDateHome(em, hw, fr)
                       THEN syncToMem(em, fr) ELSE em
         IN  freeTemp(disassociate(synced, hw), hw)

\* spillTempReg(hw): if hw is temp and holds an FR whose value is not
\* otherwise preserved, syncToMem that FR, then freeReg(hw).
spillTempReg(em, hw) ==
    IF ~isTemp(hw) THEN em
    ELSE LET fr == em.hwRegs[hw].contains
             synced == IF fr # kInvalid /\ SoleUpToDateHome(em, hw, fr)
                       THEN syncToMem(em, fr) ELSE em
         IN  freeReg(synced, hw)

\* Make the temp register hw a local register of fr.
assignLocal(em, fr, hw) ==
    [em EXCEPT
        !.hwRegs[hw].contains = fr,
        !.frameRegs[fr].localGpX = IF isGpX(hw) THEN hw ELSE @,
        !.frameRegs[fr].localVecD = IF isGpX(hw) THEN @ ELSE hw]

\* movHWFromFR(hwDst, frSrc): materialise frSrc into hwDst and record hwDst
\* as an up-to-date home.
movHWFromFR(em, hwDst, frSrc) ==
    IF hwDst = em.frameRegs[frSrc].globalReg
    THEN [em EXCEPT !.frameRegs[frSrc].globalRegUpToDate = TRUE]
    ELSE assignLocal(em, frSrc, hwDst)

\* Release a local register whose content is no longer the latest value.
releaseStale(em, hw) ==
    IF hw = InvalidHWReg THEN em ELSE freeTemp(disassociate(em, hw), hw)

\* movFRFromHW(frDst, hwSrc): hwSrc now holds frDst's latest value; the
\* frame and every other register of frDst no longer do.
movFRFromHW(em, frDst, hwSrc) ==
    LET frs == em.frameRegs[frDst]
        stale(hw) == IF hw = hwSrc THEN InvalidHWReg ELSE hw
        rel == releaseStale(releaseStale(em, stale(frs.localGpX)),
                            stale(frs.localVecD))
    IN  IF hwSrc = frs.globalReg
        THEN [rel EXCEPT !.frameRegs[frDst].frameUpToDate = FALSE,
                         !.frameRegs[frDst].globalRegUpToDate = TRUE]
        ELSE [assignLocal(rel, frDst, hwSrc) EXCEPT
                         !.frameRegs[frDst].frameUpToDate = FALSE,
                         !.frameRegs[frDst].globalRegUpToDate = FALSE]

\* A plausible slip: the local registers are released without being synced
\* or folded into the global register.
newBasicBlockDropLocals(em) ==
    [frameRegs |->
        [fr \in DOMAIN em.frameRegs |->
            [em.frameRegs[fr] EXCEPT !.localType = em.frameRegs[fr].globalType,
                                     !.localGpX = InvalidHWReg,
                                     !.localVecD = InvalidHWReg]],
     hwRegs |->
        [hw \in DOMAIN em.hwRegs |->
            IF isTemp(hw) THEN HWRegStateNew ELSE em.hwRegs[hw]],
     gpTemp |-> TempRegAllocNew(kGPTemp),
     vecTemp |-> TempRegAllocNew(kVecTemp)]

\* newBasicBlock(label): every FR's localType is reset to its globalType; all
\* local registers are released after being synced or folded into the global
\* register if one exists; the LRU allocators are cleared.
newBasicBlock(em) ==
    [frameRegs |->
        [fr \in DOMAIN em.frameRegs |->
            LET frs == [em.frameRegs[fr] EXCEPT
                              !.localType = em.frameRegs[fr].globalType]
            IN  IF LocalsOf(frs) = {} THEN frs
                ELSE IF frs.globalReg # InvalidHWReg
                THEN [frs EXCEPT !.localGpX = InvalidHWReg,
                                 !.localVecD = InvalidHWReg,
                                 !.globalRegUpToDate = TRUE]
                ELSE [frs EXCEPT !.localGpX = InvalidHWReg,
                                 !.localVecD = InvalidHWReg,
                                 !.frameUpToDate = TRUE]],
     hwRegs |->
        [hw \in DOMAIN em.hwRegs |->
            IF isTemp(hw) THEN HWRegStateNew ELSE em.hwRegs[hw]],
     gpTemp |-> TempRegAllocNew(kGPTemp),
     vecTemp |-> TempRegAllocNew(kVecTemp)]

\* _allocTemp(ra, preferred): alloc; when the pool is empty, spill the least
\* recently used register and alloc again.
allocTemp(em, p, preferred) ==
    LET ra == IF p = "gp" THEN em.gpTemp ELSE em.vecTemp
        r == alloc(ra, preferred)
        victim == IF p = "gp" THEN gpX(leastRecentlyUsed(ra))
                  ELSE vecD(leastRecentlyUsed(ra))
        spilled == spillTempReg(em, victim)
        r2 == alloc(IF p = "gp" THEN spilled.gpTemp ELSE spilled.vecTemp,
                    preferred)
        base == IF r.ret # None THEN em ELSE spilled
        res == IF r.ret # None THEN r ELSE r2
    IN  IF p = "gp" THEN [base EXCEPT !.gpTemp = res.ra]
        ELSE [base EXCEPT !.vecTemp = res.ra]

\* The register _allocTemp(ra, preferred) returns.
allocTempRet(em, p, preferred) ==
    LET ra == IF p = "gp" THEN em.gpTemp ELSE em.vecTemp
        r == alloc(ra, preferred)
        spilled == spillTempReg(em, IF p = "gp" THEN gpX(leastRecentlyUsed(ra))
                                    ELSE vecD(leastRecentlyUsed(ra)))
        ret == IF r.ret # None THEN r.ret
               ELSE alloc(IF p = "gp" THEN spilled.gpTemp ELSE spilled.vecTemp,
                          preferred).ret
    IN  IF p = "gp" THEN gpX(ret) ELSE vecD(ret)


\* Install an emitter state; the rest of the module stays as it is.
SetEm(em) ==
    /\ frameRegs_' = em.frameRegs
    /\ hwRegs_' = em.hwRegs
    /\ gpTemp_' = em.gpTemp
    /\ vecTemp_' = em.vecTemp
    /\ UNCHANGED <<faVars, last, touchOrder, jitVars, roVars, cbVars>>

\* The allocated temp registers, as hardware registers.
AllocatedTemps ==
    {gpX(i) : i \in AllocatedOf(gpTemp_)} \cup {vecD(i) : i \in AllocatedOf(vecTemp_)}

\* hw can become a home of fr: it is fr's global register, or an allocated
\* temp register that holds no other frame register while fr has no other
\* local register of that class.
CanHold(hw, fr) ==
    \/ hw = frameRegs_[fr].globalReg
    \/ /\ hw \in AllocatedTemps
       /\ hwRegs_[hw].contains \in {kInvalid, fr}
       /\ (IF isGpX(hw) THEN frameRegs_[fr].localGpX
           ELSE frameRegs_[fr].localVecD) \in {InvalidHWReg, hw}

InitEm ==
    /\ IdleFA
    /\ IdleJit
    /\ IdleRO
    /\ IdleCB
    /\ gpTemp_ = TempRegAllocNew(kGPTemp)
    /\ vecTemp_ = TempRegAllocNew(kVecTemp)
    /\ last = NoOp
    /\ touchOrder = [p \in Pools |-> <<>>]
    /\ \E g \in [FRs -> HWRegs \cup {InvalidHWReg}] :
          /\ \A fr \in FRs : g[fr] \in GlobalRegsFor(fr)
          /\ frameRegs_ = [fr \in FRs |-> FRStateNew(g[fr])]
          /\ hwRegs_ = [hw \in HWRegs |->
                          IF \E fr \in FRs : g[fr] = hw
                          THEN [contains |-> CHOOSE fr \in FRs : g[fr] = hw]
                          ELSE HWRegStateNew]

EmAllocTemp ==
    \E p \in Pools : \E preferred \in {None} \cup PoolRange(p) :
        SetEm(allocTemp(EmState, p, preferred))

EmMovHWFromFR ==
    \E fr \in FRs : \E hw \in HWRegs :
        /\ CanHold(hw, fr)
        /\ SetEm(movHWFromFR(EmState, hw, fr))

EmMovFRFromHW ==
    \E fr \in FRs : \E hw \in HWRegs :
        /\ CanHold(hw, fr)
        /\ SetEm(movFRFromHW(EmState, fr, hw))

EmSyncToMem ==
    \E fr \in FRs : SetEm(syncToMem(EmState, fr))

EmFreeReg ==
    \E hw \in AllocatedTemps : SetEm(freeReg(EmState, hw))

EmSpillTempReg ==
    \E hw \in AllocatedTemps : SetEm(spillTempReg(EmState, hw))

EmNewBasicBlock == SetEm(newBasicBlock(EmState))

NextEm ==
    \/ EmAllocTemp
    \/ EmMovHWFromFR
    \/ EmMovFRFromHW
    \/ EmSyncToMem
    \/ EmFreeReg
    \/ EmSpillTempReg
    \/ EmNewBasicBlock

SpecEm == InitEm /\ [][NextEm]_vars

(***************************************************************************)
(* Claims about frame-register residency, checked under SpecEm.            *)
(***************************************************************************)
\* C10: after any sequence of movHWFromFR, movFRFromHW, syncToMem, freeReg,
\* spillTempReg and newBasicBlock, every FR that has a global register whose
\* globalRegUpToDate is false has at least one local register (GPR or VecD).
C10_StaleGlobalHasLocal ==
    \A fr \in FRs :
        (/\ frameRegs_[fr].globalReg # InvalidHWReg
         /\ ~frameRegs_[fr].globalRegUpToDate)
        => LocalsOf(frameRegs_[fr]) # {}


\* The registers frame register fr is associated with.
HomesOf(frs) == {frs.localGpX, frs.localVecD, frs.globalReg} \ {InvalidHWReg}

MaxOps == 2

\* The DECL_BINOP table: method -> forceNum and slow call.
BinOps == {"mul", "add", "sub", "mulN", "addN", "subN"}
forceNum(op) == op \in {"mulN", "addN", "subN"}
slowCallOf(op) ==
    CASE op \in {"mul", "mulN"} -> "_sh_ljs_mul_rjs"
      [] op \in {"add", "addN"} -> "_sh_ljs_add_rjs"
      [] op \in {"sub", "subN"} -> "_sh_ljs_sub_rjs"

\* The methods the body is made of.
BodyOps == {"add", "subN"}

\* A plausible slip: && in place of ||.
isFRKnownNumberBoth(frameRegs, fr) ==
    /\ frameRegs[fr].globalType = FRTypeNumber
    /\ frameRegs[fr].localType = FRTypeNumber

\* isFRKnownNumber(fr)
isFRKnownNumber(frameRegs, fr) ==
    \/ frameRegs[fr].globalType = FRTypeNumber
    \/ frameRegs[fr].localType = FRTypeNumber

\* newPrefLabel(pref, index)
newPrefLabel(pref, index) == [pref |-> pref, index |-> index]

\* newSlowPathLabel()
newSlowPathLabel(slowPaths) == newPrefLabel("SLOW_", Len(slowPaths))

\* A plausible slip: the index is left out.
newContLabelNoIndex(slowPaths) == newPrefLabel("CONT_", 0)

\* newContLabel()
newContLabel(slowPaths) == newPrefLabel("CONT_", Len(slowPaths))

\* frUpdateType(fr, type)
frUpdateType(em, fr, type) == [em EXCEPT !.frameRegs[fr].localType = type]

\* The VecD getOrAllocFRInVecD(fr, load = true) returns: the local VecD, else
\* a global register of the VecD class, else a newly allocated temp VecD.
VecDFor(em, fr) ==
    LET frs == em.frameRegs[fr]
    IN  IF frs.localVecD # InvalidHWReg THEN frs.localVecD
        ELSE IF frs.globalReg # InvalidHWReg /\ ~isGpX(frs.globalReg)
        THEN frs.globalReg
        ELSE allocTempRet(em, "vec", None)

\* getOrAllocFRInVecD(fr, load = true): materialise fr into that VecD.
getOrAllocFRInVecD(em, fr) ==
    LET frs == em.frameRegs[fr]
    IN  IF frs.localVecD # InvalidHWReg THEN em
        ELSE IF frs.globalReg # InvalidHWReg /\ ~isGpX(frs.globalReg)
        THEN movHWFromFR(em, frs.globalReg, fr)
        ELSE movHWFromFR(allocTemp(em, "vec", None),
                         allocTempRet(em, "vec", None), fr)

\* The emitter while it emits a body, as one value.
JitState == [em |-> EmState, slowPaths |-> slowPaths_, body |-> body_]

\* The latest value of fr is in a temp register and nowhere else: neither in
\* the frame slot nor in a callee-saved (global) register.
OnlyInTemp(em, fr) ==
    LET frs == em.frameRegs[fr]
    IN  /\ LocalsOf(frs) # {}
        /\ ~frs.frameUpToDate
        /\ ~(frs.globalReg # InvalidHWReg /\ frs.globalRegUpToDate)

\* arithBinOp needs a slow path.
needsSlowPath(frameRegs, forceNumber, frLeft, frRight) ==
    /\ ~forceNumber
    /\ ~(isFRKnownNumber(frameRegs, frLeft) /\ isFRKnownNumber(frameRegs, frRight))

\* The registers of one arithBinOp: result, left and right VecD.
arithRegs(em, frLeft, frRight) ==
    LET em1 == allocTemp(em, "vec", None)
        em2 == getOrAllocFRInVecD(em1, frLeft)
    IN  [res |-> allocTempRet(em, "vec", None),
         left |-> VecDFor(em1, frLeft),
         right |-> VecDFor(em2, frRight)]

\* arithBinOp(forceNumber, frRes, frLeft, frRight, name, fast, slowCall, ..):
\* 1. unless forceNumber is set or both operands are known Number, guard the
\*    operands and branch to a newly queued slow path on failure;
\* 2. allocate a temp VecD for the result, materialise the operands into
\*    VecDs, emit the fast operation;
\* 3. record frRes as up to date in the result VecD, with localType Number.
arithBinOp(jit, forceNumber, frRes, frLeft, frRight, slowCall) ==
    LET em == jit.em
        slow == needsSlowPath(em.frameRegs, forceNumber, frLeft, frRight)
        regs == arithRegs(em, frLeft, frRight)
        sl == [slowPathLab |-> newSlowPathLabel(jit.slowPaths),
               contLab |-> newContLabel(jit.slowPaths),
               frRes |-> frRes, frInput1 |-> frLeft, frInput2 |-> frRight,
               hwRes |-> regs.res, slowCall |-> slowCall]
        em1 == allocTemp(em, "vec", None)
        em2 == getOrAllocFRInVecD(em1, frLeft)
        em3 == getOrAllocFRInVecD(em2, frRight)
        em4 == frUpdateType(movFRFromHW(em3, frRes, regs.res), frRes, FRTypeNumber)
    IN  [em |-> em4,
         slowPaths |-> IF slow THEN Append(jit.slowPaths, sl) ELSE jit.slowPaths,
         body |-> IF slow
                  THEN Append(jit.body,
                              [branch |-> sl.slowPathLab, bind |-> sl.contLab,
                               onlyInTemp |-> {fr \in FRs \ {frRes, frLeft, frRight} :
                                                 OnlyInTemp(em, fr)}])
                  ELSE jit.body]

(***************************************************************************)
(* The RO data pool, the FP-constant pool and the thunks.  The members are *)
(* those of JitEmitter.h; the bodies of reserveData, uint64Const and       *)
(* registerCall follow the design description ("RO data").                 *)
(***************************************************************************)
\* Number of RO data operations, of distinct bit patterns, of helpers.
MaxROCalls == 4
NumPatterns == 3
Patterns == 0 .. NumPatterns - 1

\* sizeof(double), sizeof(void *)
WordSize == 8

\* The runtime helpers a thunk can be registered for, and their addresses.
Helpers == {"_sh_ljs_mul_rjs", "_sh_ljs_add_rjs", "_sh_ljs_sub_rjs"}
addressOf(fn) ==
    CASE fn = "_sh_ljs_mul_rjs" -> 4096
      [] fn = "_sh_ljs_add_rjs" -> 4160
      [] fn = "_sh_ljs_sub_rjs" -> 4224

\* The RO data members of the Emitter, as one value.
ROState ==
    [roData |-> roData_, roDataDesc |-> roDataDesc_, thunks |-> thunks_,
     thunkMap |-> thunkMap_, fp64ConstMap |-> fp64ConstMap_,
     reserved |-> reserved]

RECURSIVE shr8(_, _)
shr8(v, k) == IF k = 0 THEN v ELSE shr8(v \div 256, k - 1)

\* The little-endian bytes of a 64-bit value.
bytesOf(v) == [k \in 1 .. WordSize |-> shr8(v, k - 1) % 256]

\* memcpy(roData_.data() + ofs, &v, 8)
memcpy(roData, ofs, v) ==
    [i \in DOMAIN roData |->
        IF i > ofs /\ i <= ofs + WordSize THEN bytesOf(v)[i - ofs] ELSE roData[i]]

\* The bytes at [ofs, ofs + 8) of the buffer.
bytesAt(roData, ofs) == [k \in 1 .. WordSize |-> roData[ofs + k]]

alignUp(size, align) == ((size + align - 1) \div align) * align

\* reserveData(dsize, align, typeId, itemCount, comment): append to the RO
\* buffer with alignment padding, record a descriptor, return the offset.
\* owner names what the range is for (history only).
reserveData(ro, dsize, align, itemCount, owner) ==
    LET dataOfs == alignUp(Len(ro.roData), align)
    IN  [ro |-> [ro EXCEPT
                   !.roData = @ \o [i \in 1 .. dataOfs + dsize - Len(@) |-> 0],
                   !.roDataDesc = Append(@, [size |-> dsize, itemCount |-> itemCount]),
                   !.reserved = Append(@, [ofs |-> dataOfs, size |-> dsize,
                                           owner |-> owner])],
         ret |-> dataOfs]

\* A plausible slip: the map is never consulted.
uint64ConstNoLookup(ro, bits) ==
    LET r == reserveData(ro, WordSize, WordSize, 1, [kind |-> "const", of |-> bits])
    IN  [ro |-> [r.ro EXCEPT
                   !.roData = memcpy(@, r.ret, bits),
                   !.fp64ConstMap = (bits :> r.ret) @@ @],
         ret |-> r.ret]

\* uint64Const(bits, comment): look bits up in fp64ConstMap_; on a miss,
\* reserve 8 bytes and insert.
uint64Const(ro, bits) ==
    IF bits \in DOMAIN ro.fp64ConstMap
    THEN [ro |-> ro, ret |-> ro.fp64ConstMap[bits]]
    ELSE LET r == reserveData(ro, WordSize, WordSize, 1,
                              [kind |-> "const", of |-> bits])
         IN  [ro |-> [r.ro EXCEPT
                        !.roData = memcpy(@, r.ret, bits),
                        !.fp64ConstMap = @ @@ (bits :> r.ret)],
              ret |-> r.ret]

\* The label of a new thunk.
newThunkLabel(thunks) == newPrefLabel("THUNK_", Len(thunks))

\* registerCall(fn, name) when fn is not in thunkMap_: a new thunk that loads
\* the function pointer from a new RO data slot.
newThunk(ro, fn) ==
    LET r == reserveData(ro, WordSize, WordSize, 1, [kind |-> "thunk", of |-> fn])
    IN  [ro |-> [r.ro EXCEPT
                   !.roData = memcpy(@, r.ret, addressOf(fn)),
                   !.thunks = Append(@, [label |-> newThunkLabel(ro.thunks),
                                         ofs |-> r.ret]),
                   !.thunkMap = @ @@ (fn :> Len(ro.thunks))],
         ret |-> newThunkLabel(ro.thunks)]

\* A plausible slip: every call makes a thunk.
registerCallNoLookup(ro, fn) ==
    LET r == newThunk(ro, fn)
    IN  [ro |-> [r.ro EXCEPT !.thunkMap = (fn :> Len(ro.thunks)) @@ ro.thunkMap],
         ret |-> r.ret]

\* registerCall(fn, name): look fn up in thunkMap_; on a miss, emit a thunk
\* and record its label.
registerCall(ro, fn) ==
    IF fn \in DOMAIN ro.thunkMap
    THEN [ro |-> ro, ret |-> ro.thunks[ro.thunkMap[fn] + 1].label]
    ELSE newThunk(ro, fn)

\* The emit callback of one slow path: bind the label of the slow block, sync
\* the frame slots of the FRs passed to the helper, call the helper through
\* its thunk, branch to the continuation.
emitSlowPath(ro, sl) ==
    LET r == registerCall(ro, sl.slowCall)
    IN  [ro |-> r.ro,
         block |-> [bind |-> sl.slowPathLab,
                    sync |-> {sl.frInput1, sl.frInput2},
                    call |-> sl.slowCall,
                    thunk |-> r.ret,
                    b |-> sl.contLab]]

\* emitSlowPaths(): walk the queue in insertion order and emit each entry.
RECURSIVE emitSlowPaths(_, _, _)
emitSlowPaths(slowPaths, ro, tail) ==
    IF slowPaths = <<>> THEN [ro |-> ro, tail |-> tail]
    ELSE LET r == emitSlowPath(ro, Head(slowPaths))
         IN  emitSlowPaths(Tail(slowPaths), r.ro, Append(tail, r.block))

\* Install the RO data members.
SetRO(ro) ==
    /\ roData_' = ro.roData
    /\ roDataDesc_' = ro.roDataDesc
    /\ thunks_' = ro.thunks
    /\ thunkMap_' = ro.thunkMap
    /\ fp64ConstMap_' = ro.fp64ConstMap
    /\ reserved' = ro.reserved

\* Install the emitter while it emits a body.
SetJit(jit) ==
    /\ frameRegs_' = jit.em.frameRegs
    /\ hwRegs_' = jit.em.hwRegs
    /\ gpTemp_' = jit.em.gpTemp
    /\ vecTemp_' = jit.em.vecTemp
    /\ slowPaths_' = jit.slowPaths
    /\ body_' = jit.body

\* The types a frame register can have at function entry.
EntryTypes == {FRTypeNumber, FRTypeUnknownPtr}

InitJit ==
    /\ IdleFA
    /\ IdleRO
    /\ IdleCB
    /\ gpTemp_ = TempRegAllocNew(kGPTemp)
    /\ vecTemp_ = TempRegAllocNew(kVecTemp)
    /\ last = NoOp
    /\ touchOrder = [p \in Pools |-> <<>>]
    /\ slowPaths_ = <<>> /\ body_ = <<>> /\ tail_ = <<>>
    /\ phase_ = "body"
    /\ lastArith = NoArith
    /\ \E g \in [FRs -> HWRegs \cup {InvalidHWReg}] : \E t \in [FRs -> EntryTypes] :
          /\ \A fr \in FRs : g[fr] \in GlobalRegsFor(fr)
          /\ frameRegs_ = [fr \in FRs |->
                             [FRStateNew(g[fr]) EXCEPT !.globalType = t[fr],
                                                       !.localType = t[fr]]]
          /\ hwRegs_ = [hw \in HWRegs |->
                          IF \E fr \in FRs : g[fr] = hw
                          THEN [contains |-> CHOOSE fr \in FRs : g[fr] = hw]
                          ELSE HWRegStateNew]

\* The temp pool is large enough for the operation: the registers of the
\* result and of the operands are distinct, and none of them is spilled by an
\* allocation of the same operation.
NoClobber(em, frLeft, frRight) ==
    LET regs == arithRegs(em, frLeft, frRight)
        em1 == allocTemp(em, "vec", None)
        em2 == getOrAllocFRInVecD(em1, frLeft)
        em3 == getOrAllocFRInVecD(em2, frRight)
    IN  /\ regs.res # regs.left /\ regs.res # regs.right
        /\ (frLeft # frRight) => regs.left # regs.right
        /\ VecDFor(em3, frLeft) = regs.left
        /\ VecDFor(em3, frRight) = regs.right
        /\ em3.hwRegs[regs.res].contains = kInvalid
        /\ regs.res \in TempVecD => indexInClass(regs.res) \in AllocatedOf(em3.vecTemp)

JitArith ==
    \E op \in BodyOps : \E frRes \in FRs : \E frLeft \in FRs : \E frRight \in FRs :
        LET jit == arithBinOp(JitState, forceNum(op), frRes, frLeft, frRight,
                              slowCallOf(op))
        IN  /\ phase_ = "body"
            /\ lastArith.n < MaxOps
            /\ NoClobber(EmState, frLeft, frRight)
            /\ SetJit(jit)
            /\ lastArith' =
                 [n |-> lastArith.n + 1, sameBlock |-> TRUE,
                  op |-> op, frRes |-> frRes,
                  frLeft |-> frLeft, frRight |-> frRight,
                  knownLeft |-> frameRegs_[frLeft].globalType = FRTypeNumber
                                \/ frameRegs_[frLeft].localType = FRTypeNumber,
                  knownRight |-> frameRegs_[frRight].globalType = FRTypeNumber
                                 \/ frameRegs_[frRight].localType = FRTypeNumber,
                  queued |-> Len(jit.slowPaths) - Len(slowPaths_)]
            /\ UNCHANGED <<faVars, last, touchOrder, tail_, phase_, roVars, cbVars>>

JitNewBasicBlock ==
    /\ phase_ = "body"
    /\ SetJit([JitState EXCEPT !.em = newBasicBlock(@)])
    /\ lastArith' = [lastArith EXCEPT !.sameBlock = FALSE]
    /\ UNCHANGED <<faVars, last, touchOrder, tail_, phase_, roVars, cbVars>>

JitEmitSlowPaths ==
    LET r == emitSlowPaths(slowPaths_, ROState, <<>>)
    IN  /\ phase_ = "body"
        /\ phase_' = "done"
        /\ tail_' = r.tail
        /\ SetRO(r.ro)
        /\ UNCHANGED <<faVars, traVars, emVars, slowPaths_, body_, lastArith,
                       lastRO, cbVars>>

NextJit ==
    \/ JitArith
    \/ JitNewBasicBlock
    \/ JitEmitSlowPaths

SpecJit == InitJit /\ [][NextJit]_vars

C13_SlowPathsEmittedOnceInOrder ==
    /\ Len(slowPaths_) = Len(body_)
    /\ phase_ = "done" =>
          /\ Len(tail_) = Len(slowPaths_)
          /\ \A i \in DOMAIN tail_ :
                /\ tail_[i].bind = slowPaths_[i].slowPathLab
                /\ tail_[i].bind = body_[i].branch
                /\ tail_[i].call = slowPaths_[i].slowCall
                /\ tail_[i].sync = {slowPaths_[i].frInput1, slowPaths_[i].frInput2}
                /\ tail_[i].b = slowPaths_[i].contLab
                /\ tail_[i].b = body_[i].bind
          /\ \A i, j \in DOMAIN tail_ :
                i # j => /\ tail_[i].bind # tail_[j].bind
                         /\ tail_[i].b # tail_[j].b

\* Two slow paths with different operands were queued and have been emitted.
C13_Witness ==
    /\ phase_ = "done"
    /\ Len(tail_) = 2
    /\ slowPaths_[1].frInput1 # slowPaths_[2].frInput1

\* C14: arithBinOp queues no slow path when forceNumber is set or both
\* operands are known Number (globalType or localType is Number), and exactly
\* one otherwise; either way the result FR has localType Number afterwards,
\* so until the next basic block an operation on that result alone needs no
\* guard.
C14_SlowPathIffNotKnownNumber ==
    lastArith.n > 0 =>
        /\ lastArith.queued =
              (IF forceNum(lastArith.op)
                  \/ (lastArith.knownLeft /\ lastArith.knownRight)
               THEN 0 ELSE 1)
        /\ lastArith.sameBlock =>
              /\ frameRegs_[lastArith.frRes].localType = FRTypeNumber
              /\ ~needsSlowPath(frameRegs_, FALSE, lastArith.frRes, lastArith.frRes)

\* A guarded add was followed, in the same basic block, by an unguarded add
\* whose operands are known Number by their localType only.
C14_Witness ==
    /\ lastArith.n = 2
    /\ lastArith.sameBlock
    /\ lastArith.op = "add"
    /\ lastArith.queued = 0
    /\ Len(slowPaths_) = 1
    /\ frameRegs_[lastArith.frRes].globalType # FRTypeNumber
    /\ slowPaths_[1].frRes \in {lastArith.frLeft, lastArith.frRight}

(***************************************************************************)
(* The RO data operations on their own, in any order.                      *)
(***************************************************************************)
InitRO ==
    /\ IdleFA
    /\ IdleTRA
    /\ IdleEm
    /\ IdleJit
    /\ IdleCB
    /\ IdleRO

\* The sizes and alignments of plain reservations.
DataSizes == {1, 4, 8}
DataAligns == {1, 4, 8}

\* The call applied, what it returned and what it found (history).
LogRO(op, arg, r) ==
    lastRO' = [op |-> op, n |-> lastRO.n + 1, arg |-> arg, ret |-> r.ret,
               sizeBefore |-> Len(roData_),
               reservedBefore |-> Len(reserved),
               thunksBefore |-> Len(thunks_),
               seenBefore |->
                  \E i \in DOMAIN reserved :
                      /\ reserved[i].owner.kind = (IF op = "uint64Const" THEN "const"
                                                   ELSE "thunk")
                      /\ reserved[i].owner.of = arg]

ROReserveData ==
    \E dsize \in DataSizes : \E align \in DataAligns :
        LET r == reserveData(ROState, dsize, align, 1, [kind |-> "data", of |-> dsize])
        IN  /\ lastRO.n < MaxROCalls
            /\ SetRO(r.ro)
            /\ lastRO' = [op |-> "reserveData", n |-> lastRO.n + 1,
                          arg |-> dsize, ret |-> r.ret,
                          sizeBefore |-> Len(roData_),
                          reservedBefore |-> Len(reserved),
                          thunksBefore |-> Len(thunks_), seenBefore |-> FALSE]
            /\ UNCHANGED <<faVars, traVars, emVars, jitVars, cbVars>>

ROUint64Const ==
    \E bits \in Patterns :
        LET r == uint64Const(ROState, bits)
        IN  /\ lastRO.n < MaxROCalls
            /\ SetRO(r.ro)
            /\ LogRO("uint64Const", bits, r)
            /\ UNCHANGED <<faVars, traVars, emVars, jitVars, cbVars>>

RORegisterCall ==
    \E fn \in Helpers :
        LET r == registerCall(ROState, fn)
        IN  /\ lastRO.n < MaxROCalls
            /\ SetRO(r.ro)
            /\ LogRO("registerCall", fn, r)
            /\ UNCHANGED <<faVars, traVars, emVars, jitVars, cbVars>>

NextRO ==
    \/ ROReserveData
    \/ ROUint64Const
    \/ RORegisterCall

SpecRO == InitRO /\ [][NextRO]_vars

(***************************************************************************)
(* Claims about the RO data pool, checked under SpecRO.                    *)
(***************************************************************************)
\* The reservations made for bit patterns, for thunks.
ConstRanges == {i \in DOMAIN reserved : reserved[i].owner.kind = "const"}
ThunkRanges == {i \in DOMAIN reserved : reserved[i].owner.kind = "thunk"}

\* C15: uint64Const returns, for a bit pattern, the offset of the one 8-byte
\* range reserved when the pattern was first requested, and reserves nothing
\* when the pattern was requested before; different patterns have different
\* offsets; the ranges reserveData handed out lie in the buffer in the order
\* they were reserved, without overlap, and every constant is still at its
\* offset.
C15_ConstantsDeduplicated ==
    /\ lastRO.op = "uint64Const" =>
          /\ \E i \in ConstRanges :
                /\ reserved[i].owner.of = lastRO.arg
                /\ reserved[i].ofs = lastRO.ret
                /\ reserved[i].size = WordSize
          /\ IF lastRO.seenBefore
             THEN /\ Len(reserved) = lastRO.reservedBefore
                  /\ Len(roData_) = lastRO.sizeBefore
             ELSE /\ Len(reserved) = lastRO.reservedBefore + 1
                  /\ reserved[Len(reserved)].owner.of = lastRO.arg
                  /\ Len(roData_) = lastRO.ret + WordSize
    /\ \A i, j \in ConstRanges :
          i # j => /\ reserved[i].owner.of # reserved[j].owner.of
                   /\ reserved[i].ofs # reserved[j].ofs
    /\ \A i, j \in DOMAIN reserved :
          i < j => reserved[i].ofs + reserved[i].size <= reserved[j].ofs
    /\ \A i \in DOMAIN reserved :
          reserved[i].ofs >= 0 /\ reserved[i].ofs + reserved[i].size <= Len(roData_)
    /\ \A i \in ConstRanges :
          /\ bytesAt(roData_, reserved[i].ofs) = bytesOf(reserved[i].owner.of)
          /\ reserved[i].owner.of \in DOMAIN fp64ConstMap_
          /\ fp64ConstMap_[reserved[i].owner.of] = reserved[i].ofs

\* A pattern is requested again after a reservation that needed padding and
\* a constant of another pattern were added behind its range.
C15_Witness ==
    /\ lastRO.op = "uint64Const"
    /\ lastRO.seenBefore
    /\ \E i, j \in ConstRanges : \E k \in DOMAIN reserved :
          /\ reserved[i].owner.of = lastRO.arg
          /\ i < k /\ k < j
          /\ reserved[k].owner.kind = "data"
          /\ reserved[j].ofs > reserved[k].ofs + reserved[k].size

\* C16: registerCall returns, for a function pointer, the label of the one
\* thunk made when the pointer was first registered, whatever was registered
\* in between; a call for a pointer registered before makes no thunk and
\* reserves nothing; there is one thunk and one RO data slot, holding the
\* pointer, per distinct function pointer, and different pointers have
\* different labels.
C16_ThunksDeduplicated ==
    /\ lastRO.op = "registerCall" =>
          /\ \E i \in ThunkRanges :
                /\ reserved[i].owner.of = lastRO.arg
                /\ lastRO.ret =
                      newPrefLabel("THUNK_",
                                   Cardinality({j \in ThunkRanges : j < i}))
          /\ IF lastRO.seenBefore
             THEN /\ Len(thunks_) = lastRO.thunksBefore
                  /\ Len(reserved) = lastRO.reservedBefore
                  /\ Len(roData_) = lastRO.sizeBefore
             ELSE /\ Len(thunks_) = lastRO.thunksBefore + 1
                  /\ Len(reserved) = lastRO.reservedBefore + 1
    /\ Len(thunks_) = Cardinality(DOMAIN thunkMap_)
    /\ Len(thunks_) = Cardinality(ThunkRanges)
    /\ \A i, j \in ThunkRanges : i # j => reserved[i].owner.of # reserved[j].owner.of
    /\ \A k, l \in DOMAIN thunks_ : k # l => thunks_[k].label # thunks_[l].label
    /\ \A fn \in DOMAIN thunkMap_ :
          LET t == thunks_[thunkMap_[fn] + 1]
          IN  /\ \E i \in ThunkRanges : /\ reserved[i].owner.of = fn
                                        /\ reserved[i].ofs = t.ofs
              /\ bytesAt(roData_, t.ofs) = bytesOf(addressOf(fn))

\* A function is registered again after another function was registered
\* behind it.
C16_Witness ==
    /\ lastRO.op = "registerCall"
    /\ lastRO.seenBefore
    /\ \E i, j \in ThunkRanges :
          /\ i < j
          /\ reserved[i].owner.of = lastRO.arg
          /\ reserved[j].owner.of # lastRO.arg

(***************************************************************************)
(* CodeBlock (CodeBlock.h).  The accessors are translated from the header; *)
(* createCodeBlock and lazyCompileImpl, whose bodies are elsewhere, follow  *)
(* the design description ("CodeBlock").                                   *)
(***************************************************************************)
\* Largest bytecode size, largest length of a cache segment.
MaxBytecode == 3
MaxCacheSegment == 3

\* nullptr, and the addresses bytecode can be at.
NullPtr == 0
BytecodeAddrs == {64, 96}
\* The addresses lazy compilation can put bytecode at.
CompiledAddrs == {128, 160}

\* The function IDs, the cache indices (uint8_t idx) and the offsets drawn.
FunctionIDs == {0, 1}
CacheIdxs == 0 .. 2 * MaxCacheSegment + 1
Offsets == 0 .. MaxBytecode + 1

\* A hidden class no cache entry refers to, and the hidden classes.
NoClass == 0
HiddenClasses == {1, 2}

\* PropertyCacheEntry{}: an empty entry.
PropertyCacheEntryNew == [clazz |-> NoClass, slot |-> 0]

\* The constructor: the fields are the arguments, unchecked, and the
\* cacheSize trailing entries are filled with empty entries.  lean tells
\* whether the build defines HERMESVM_LEAN.
CodeBlockNew(lean, header, bytecode, functionID, cacheSize, writePropCacheOffset) ==
    [lean |-> lean,
     propertyCache |-> [i \in 0 .. cacheSize - 1 |-> PropertyCacheEntryNew],
     functionHeader_ |-> header,
     bytecode_ |-> bytecode,
     functionID_ |-> functionID,
     propertyCacheSize_ |-> cacheSize,
     writePropCacheOffset_ |-> writePropCacheOffset]

\* A plausible slip: the last two arguments of the constructor swapped.
createCodeBlockSwapped(lean, header, bytecode, functionID) ==
    CodeBlockNew(lean, header, bytecode, functionID,
                 header.readCacheSize,
                 header.readCacheSize + header.writeCacheSize)

\* createCodeBlock(runtimeModule, header, bytecode, functionID): the single
\* factory; it computes the length of the trailing array [read-cache |
\* write-cache] from the header, the boundary being the length of the read
\* cache.
createCodeBlock(lean, header, bytecode, functionID) ==
    CodeBlockNew(lean, header, bytecode, functionID,
                 header.readCacheSize + header.writeCacheSize,
                 header.readCacheSize)

getFunctionID(cb) == cb.functionID_

begin(cb) == cb.bytecode_
end(cb) == cb.bytecode_ + cb.functionHeader_.bytecodeSizeInBytes

contains(cb, inst) == begin(cb) <= inst /\ inst < end(cb)

\* getOffsetPtr(offset): ok is the assertion.
getOffsetPtr(cb, offset) ==
    [ok |-> begin(cb) + offset < end(cb), ret |-> begin(cb) + offset]

\* A plausible slip: the offset counted from the first byte after begin().
getOffsetOfByOne(cb, inst) ==
    [ok |-> inst >= begin(cb) /\ inst + 1 < end(cb), ret |-> inst - begin(cb) - 1]

\* getOffsetOf(inst): ok is the two assertions.
getOffsetOf(cb, inst) ==
    LET offset == inst - begin(cb)
    IN  [ok |-> inst >= begin(cb) /\ begin(cb) + offset < end(cb), ret |-> offset]

\* isLazy(): !bytecode_, and false in a lean build.
isLazy(cb) == IF cb.lean THEN FALSE ELSE cb.bytecode_ = NullPtr

\* lazyCompileImpl(runtime): compiled tells whether the front end succeeds;
\* on success the bytecode (with the header of the compiled function) is
\* replaced in place and functionID_ is left alone; on failure the block is
\* left as it is.
lazyCompileImpl(cb, compiled, bytecode, size) ==
    IF compiled
    THEN [cb |-> [cb EXCEPT !.bytecode_ = bytecode,
                            !.functionHeader_.bytecodeSizeInBytes = size],
          ret |-> "RETURNED", impl |-> TRUE]
    ELSE [cb |-> cb, ret |-> "EXCEPTION", impl |-> TRUE]

\* A plausible slip: the test of isLazy() inverted.
lazyCompileInverted(cb, compiled, bytecode, size) ==
    IF cb.lean \/ isLazy(cb) THEN [cb |-> cb, ret |-> "RETURNED", impl |-> FALSE]
    ELSE lazyCompileImpl(cb, compiled, bytecode, size)

\* lazyCompile(runtime)
lazyCompile(cb, compiled, bytecode, size) ==
    IF cb.lean \/ ~isLazy(cb) THEN [cb |-> cb, ret |-> "RETURNED", impl |-> FALSE]
    ELSE lazyCompileImpl(cb, compiled, bytecode, size)

\* getReadCacheEntry(idx): ok is the assertion, ret the index of the entry in
\* the trailing array.
getReadCacheEntry(cb, idx) ==
    [ok |-> idx < cb.writePropCacheOffset_, ret |-> idx]

\* A plausible slip: the write cache indexed from the start of the array.
getWriteCacheEntryNoOffset(cb, idx) ==
    [ok |-> cb.writePropCacheOffset_ + idx < cb.propertyCacheSize_, ret |-> idx]

\* getWriteCacheEntry(idx)
getWriteCacheEntry(cb, idx) ==
    [ok |-> cb.writePropCacheOffset_ + idx < cb.propertyCacheSize_,
     ret |-> cb.writePropCacheOffset_ + idx]

\* What the debug information of a function can say: the Variable counts of
\* the enclosing scopes, a Variable's name.
VariableCounts == {<<1>>, <<2, 1>>}
VariableNames == {"x", "y"}

\* getVariableCounts(): hermes_fatal in a lean build; otherwise the counts
\* of the debug information.
getVariableCounts(cb, counts) ==
    IF cb.lean THEN [fatal |-> TRUE, ret |-> <<>>]
    ELSE [fatal |-> FALSE, ret |-> counts]

\* getVariableNameAtDepth(depth, variableIndex): hermes_fatal in a lean
\* build; otherwise the name the debug information has.
getVariableNameAtDepth(cb, depth, variableIndex, name) ==
    IF cb.lean THEN [fatal |-> TRUE, ret |-> ""]
    ELSE [fatal |-> FALSE, ret |-> name]

\* The headers a function can have.
Headers ==
    [bytecodeSizeInBytes : 0 .. MaxBytecode,
     readCacheSize : 0 .. MaxCacheSegment,
     writeCacheSize : 0 .. MaxCacheSegment,
     exceptionTable : {<<>>}]

InitCB ==
    /\ IdleFA
    /\ IdleTRA
    /\ IdleEm
    /\ IdleJit
    /\ IdleRO
    /\ lastCB = NoCB
    /\ \E lean \in BOOLEAN : \E header \in Headers :
       \E bytecode \in BytecodeAddrs \cup {NullPtr} : \E functionID \in FunctionIDs :
          /\ lean => bytecode # NullPtr
          /\ bytecode # NullPtr => header.bytecodeSizeInBytes > 0
          /\ cb_ = createCodeBlock(lean, header, bytecode, functionID)

\* An accessor was called: what it was given and what it returned (history).
CBCall(op, arg, r) ==
    /\ lastCB' = [op |-> op, arg |-> arg, ok |-> r.ok, ret |-> r.ret]
    /\ UNCHANGED <<cb_, faVars, traVars, emVars, jitVars, roVars>>

CBGetReadCacheEntry ==
    \E idx \in CacheIdxs : CBCall("getReadCacheEntry", idx, getReadCacheEntry(cb_, idx))

CBGetWriteCacheEntry ==
    \E idx \in CacheIdxs : CBCall("getWriteCacheEntry", idx, getWriteCacheEntry(cb_, idx))

CBGetOffsetPtr ==
    \E offset \in Offsets :
        /\ ~isLazy(cb_)
        /\ CBCall("getOffsetPtr", offset, getOffsetPtr(cb_, offset))

CBGetOffsetOf ==
    \E offset \in Offsets :
        /\ ~isLazy(cb_)
        /\ CBCall("getOffsetOf", begin(cb_) + offset,
                  getOffsetOf(cb_, begin(cb_) + offset))

CBContains ==
    \E inst \in -1 .. MaxBytecode + 1 :
        /\ ~isLazy(cb_)
        /\ CBCall("contains", begin(cb_) + inst,
                  [ok |-> TRUE, ret |-> contains(cb_, begin(cb_) + inst)])

CBLazyCompile ==
    \E compiled \in BOOLEAN : \E bytecode \in CompiledAddrs : \E size \in 1 .. MaxBytecode :
        LET r == lazyCompile(cb_, compiled, bytecode, size)
        IN  /\ cb_' = r.cb
            /\ lastCB' = [op |-> "lazyCompile", arg |-> cb_, ok |-> TRUE,
                          ret |-> r.ret, impl |-> r.impl, fatal |-> FALSE]
            /\ UNCHANGED <<faVars, traVars, emVars, jitVars, roVars>>

CBGetVariableCounts ==
    \E counts \in VariableCounts :
        LET r == getVariableCounts(cb_, counts)
        IN  /\ lastCB' = [op |-> "getVariableCounts", arg |-> 0, ok |-> TRUE,
                          ret |-> r.ret, fatal |-> r.fatal]
            /\ UNCHANGED <<cb_, faVars, traVars, emVars, jitVars, roVars>>

CBGetVariableNameAtDepth ==
    \E counts \in VariableCounts : \E depth \in DOMAIN counts :
    \E variableIndex \in 0 .. counts[depth] - 1 : \E name \in VariableNames :
        LET r == getVariableNameAtDepth(cb_, depth - 1, variableIndex, name)
        IN  /\ lastCB' = [op |-> "getVariableNameAtDepth",
                          arg |-> <<depth - 1, variableIndex>>, ok |-> TRUE,
                          ret |-> r.ret, fatal |-> r.fatal]
            /\ UNCHANGED <<cb_, faVars, traVars, emVars, jitVars, roVars>>

NextCB ==
    \/ CBGetVariableCounts
    \/ CBGetVariableNameAtDepth
    \/ CBGetReadCacheEntry
    \/ CBGetWriteCacheEntry
    \/ CBGetOffsetPtr
    \/ CBGetOffsetOf
    \/ CBContains
    \/ CBLazyCompile

SpecCB == InitCB /\ [][NextCB]_vars

(***************************************************************************)
(* The exception table of a function and findCatchTargetOffset, whose body *)
(* is elsewhere and follows the design description ("CodeBlock").          *)
(***************************************************************************)
\* Largest number of entries of an exception table.
MaxHandlers == 3

\* An entry covers the offsets start <= o < end and names its handler.
Ranges ==
    {r \in [start : 0 .. MaxBytecode, end : 0 .. MaxBytecode, target : 0 .. 2] :
        r.start < r.end}

RECURSIVE SeqsUpTo(_, _)
SeqsUpTo(S, n) ==
    IF n = 0 THEN {<<>>}
    ELSE SeqsUpTo(S, n - 1)
         \cup {Append(t, x) : t \in {u \in SeqsUpTo(S, n - 1) : Len(u) = n - 1}, x \in S}

covers(r, exceptionOffset) == r.start <= exceptionOffset /\ exceptionOffset < r.end
width(r) == r.end - r.start

\* A plausible slip: on equal width the earlier-registered range is kept.
RECURSIVE scanFirstWins(_, _, _, _)
scanFirstWins(table, i, exceptionOffset, best) ==
    IF i > Len(table) THEN best
    ELSE IF /\ covers(table[i], exceptionOffset)
            /\ (best = 0 \/ width(table[i]) < width(table[best]))
    THEN scanFirstWins(table, i + 1, exceptionOffset, i)
    ELSE scanFirstWins(table, i + 1, exceptionOffset, best)

\* The linear scan: the index of the innermost range seen so far; the
\* narrowest enclosing range wins, on equal width the later-registered one.
RECURSIVE scan(_, _, _, _)
scan(table, i, exceptionOffset, best) ==
    IF i > Len(table) THEN best
    ELSE IF /\ covers(table[i], exceptionOffset)
            /\ (best = 0 \/ width(table[i]) <= width(table[best]))
    THEN scan(table, i + 1, exceptionOffset, i)
    ELSE scan(table, i + 1, exceptionOffset, best)

\* findCatchTargetOffset(exceptionOffset): the handler offset, or -1.
findCatchTargetOffset(cb, exceptionOffset) ==
    LET table == cb.functionHeader_.exceptionTable
        best == scan(table, 1, exceptionOffset, 0)
    IN  IF best = 0 THEN -1 ELSE table[best].target

InitEH ==
    /\ IdleFA
    /\ IdleTRA
    /\ IdleEm
    /\ IdleJit
    /\ IdleRO
    /\ lastCB = NoCB
    /\ \E table \in SeqsUpTo(Ranges, MaxHandlers) :
          cb_ = createCodeBlock(FALSE,
                                [bytecodeSizeInBytes |-> MaxBytecode,
                                 readCacheSize |-> 0, writeCacheSize |-> 0,
                                 exceptionTable |-> table],
                                64, 0)

EHFindCatchTargetOffset ==
    \E exceptionOffset \in 0 .. MaxBytecode - 1 :
        /\ lastCB' = [op |-> "findCatchTargetOffset", arg |-> exceptionOffset,
                      ret |-> findCatchTargetOffset(cb_, exceptionOffset)]
        /\ UNCHANGED <<cb_, faVars, traVars, emVars, jitVars, roVars>>

NextEH == EHFindCatchTargetOffset

SpecEH == InitEH /\ [][NextEH]_vars

(***************************************************************************)
(* The property cache as the runtime fills it and the garbage collector    *)
(* walks it.  markCachedHiddenClasses, whose body is elsewhere, follows    *)
(* the design description ("CodeBlock").                                   *)
(***************************************************************************)
\* A plausible slip: only the read segment is walked.
RECURSIVE markFromReadOnly(_, _, _)
markFromReadOnly(cb, i, visited) ==
    IF i >= cb.writePropCacheOffset_ THEN visited
    ELSE markFromReadOnly(cb, i + 1,
                  IF cb.propertyCache[i].clazz # NoClass
                  THEN Append(visited, i) ELSE visited)

\* The walk over the trailing array from entry i on: the entries whose
\* hidden-class field is passed to the acceptor, in order.
RECURSIVE markFrom(_, _, _)
markFrom(cb, i, visited) ==
    IF i >= cb.propertyCacheSize_ THEN visited
    ELSE markFrom(cb, i + 1,
                  IF cb.propertyCache[i].clazz # NoClass
                  THEN Append(visited, i) ELSE visited)

\* markCachedHiddenClasses(runtime, acceptor): pass the hidden-class field of
\* every non-empty entry to the acceptor, which empties the fields whose
\* class is in reclaimed.
markCachedHiddenClasses(cb, reclaimed) ==
    LET visited == markFrom(cb, 0, <<>>)
    IN  [cb |-> [cb EXCEPT !.propertyCache =
                    [i \in DOMAIN @ |->
                        IF @[i].clazz \in reclaimed
                        THEN [@[i] EXCEPT !.clazz = NoClass] ELSE @[i]]],
         visited |-> visited]

InitPC ==
    /\ IdleFA
    /\ IdleTRA
    /\ IdleEm
    /\ IdleJit
    /\ IdleRO
    /\ lastCB = NoCB
    /\ \E header \in Headers :
          /\ header.bytecodeSizeInBytes = 1
          /\ cb_ = createCodeBlock(FALSE, header, 64, 0)

\* The interpreter caches a hidden class and a slot in an in-bounds entry.
PCFill(op, e) ==
    \E clazz \in HiddenClasses :
        /\ e.ok
        /\ cb_' = [cb_ EXCEPT !.propertyCache[e.ret] =
                                  [clazz |-> clazz, slot |-> e.ret]]
        /\ lastCB' = [op |-> op]
        /\ UNCHANGED <<faVars, traVars, emVars, jitVars, roVars>>

PCFillRead ==
    \E idx \in CacheIdxs : PCFill("fillRead", getReadCacheEntry(cb_, idx))

PCFillWrite ==
    \E idx \in CacheIdxs : PCFill("fillWrite", getWriteCacheEntry(cb_, idx))

PCMarkCachedHiddenClasses ==
    \E reclaimed \in SUBSET HiddenClasses :
        LET r == markCachedHiddenClasses(cb_, reclaimed)
        IN  /\ cb_' = r.cb
            /\ lastCB' = [op |-> "markCachedHiddenClasses", arg |-> cb_,
                          visited |-> r.visited]
            /\ UNCHANGED <<faVars, traVars, emVars, jitVars, roVars>>

NextPC ==
    \/ PCFillRead
    \/ PCFillWrite
    \/ PCMarkCachedHiddenClasses

SpecPC == InitPC /\ [][NextPC]_vars

(***************************************************************************)
(* Claims about CodeBlock, checked under SpecCB.                           *)
(***************************************************************************)
\* C17: getReadCacheEntry(idx) is in bounds exactly when idx is less than
\* writePropCacheOffset and returns entry idx; getWriteCacheEntry(idx) is in
\* bounds exactly when writePropCacheOffset + idx is less than
\* propertyCacheSize and returns entry writePropCacheOffset + idx; in-bounds
\* entries are entries of the trailing array, and no in-bounds read index and
\* in-bounds write index address the same entry.
C17_ReadAndWriteCachesDisjoint ==
    /\ lastCB.op = "getReadCacheEntry" =>
          /\ lastCB.ok <=> lastCB.arg < cb_.writePropCacheOffset_
          /\ lastCB.ret = lastCB.arg
          /\ lastCB.ok => lastCB.ret \in 0 .. cb_.propertyCacheSize_ - 1
    /\ lastCB.op = "getWriteCacheEntry" =>
          /\ lastCB.ok <=>
                cb_.writePropCacheOffset_ + lastCB.arg < cb_.propertyCacheSize_
          /\ lastCB.ret = cb_.writePropCacheOffset_ + lastCB.arg
          /\ lastCB.ok => lastCB.ret \in 0 .. cb_.propertyCacheSize_ - 1
    /\ \A r, w \in CacheIdxs :
          (getReadCacheEntry(cb_, r).ok /\ getWriteCacheEntry(cb_, w).ok)
          => getReadCacheEntry(cb_, r).ret # getWriteCacheEntry(cb_, w).ret

\* getWriteCacheEntry was given an index in bounds that is an in-bounds read
\* index too.
C17_Witness ==
    /\ lastCB.op = "getWriteCacheEntry"
    /\ lastCB.ok
    /\ lastCB.arg > 0
    /\ getReadCacheEntry(cb_, lastCB.arg).ok

\* C18: every CodeBlock the factory makes has 0 <= writePropCacheOffset <=
\* propertyCacheSize, and keeps it whatever is called on it, so the base of
\* the write cache is not past the end of the trailing array.
C18_WriteOffsetWithinCache ==
    /\ 0 <= cb_.writePropCacheOffset_
    /\ cb_.writePropCacheOffset_ <= cb_.propertyCacheSize_

\* A block with both caches, after it was compiled lazily.
C18_Witness ==
    /\ lastCB.op = "lazyCompile"
    /\ lastCB.impl
    /\ lastCB.ret = "RETURNED"
    /\ 0 < cb_.writePropCacheOffset_
    /\ cb_.writePropCacheOffset_ < cb_.propertyCacheSize_

\* C19: for a CodeBlock that is not lazy, end() - begin() is the bytecode
\* size of the header, and for every offset o with 0 <= o < bytecodeSize
\* getOffsetPtr(o) passes its assertion, contains(getOffsetPtr(o)) is true
\* and getOffsetOf(getOffsetPtr(o)) passes its assertions and returns o.
C19_OffsetRoundTrip ==
    ~isLazy(cb_) =>
        /\ end(cb_) - begin(cb_) = cb_.functionHeader_.bytecodeSizeInBytes
        /\ \A o \in 0 .. cb_.functionHeader_.bytecodeSizeInBytes - 1 :
              LET p == getOffsetPtr(cb_, o)
              IN  /\ p.ok
                  /\ contains(cb_, p.ret)
                  /\ getOffsetOf(cb_, p.ret).ok
                  /\ getOffsetOf(cb_, p.ret).ret = o
        /\ (lastCB.op = "getOffsetPtr"
            /\ lastCB.arg < cb_.functionHeader_.bytecodeSizeInBytes) =>
              /\ lastCB.ok
              /\ contains(cb_, lastCB.ret)
              /\ getOffsetOf(cb_, lastCB.ret).ret = lastCB.arg

\* getOffsetPtr was given the offset of the last byte of a block of more
\* than one byte.
C19_Witness ==
    /\ ~isLazy(cb_)
    /\ lastCB.op = "getOffsetPtr"
    /\ lastCB.ok
    /\ lastCB.arg > 0
    /\ lastCB.arg = cb_.functionHeader_.bytecodeSizeInBytes - 1

\* C20: a lazyCompile call on a block that is not lazy returns RETURNED,
\* does not invoke lazyCompileImpl and changes no field; a lazyCompile call on
\* a lazy block invokes lazyCompileImpl; a block that is not lazy never
\* becomes lazy, in particular not after a lazyCompile call succeeded on it;
\* and getFunctionID() never changes.
C20_LazyCompileOnceAndStable ==
    /\ [](lastCB.op = "lazyCompile" =>
             IF isLazy(lastCB.arg)
             THEN /\ lastCB.impl
                  /\ lastCB.ret = "RETURNED" => ~isLazy(cb_)
             ELSE /\ lastCB.ret = "RETURNED"
                  /\ ~lastCB.impl
                  /\ cb_ = lastCB.arg)
    /\ [][/\ ~isLazy(cb_) => ~isLazy(cb_')
          /\ getFunctionID(cb_') = getFunctionID(cb_)]_vars

\* lazyCompile was called again on a block that an earlier call compiled.
C20_Witness ==
    /\ lastCB.op = "lazyCompile"
    /\ ~lastCB.impl
    /\ lastCB.ret = "RETURNED"
    /\ cb_.bytecode_ \in CompiledAddrs
    /\ cb_.functionID_ = 1

\* C21: in a lean build lazyCompile, getVariableCounts and
\* getVariableNameAtDepth abort with a fatal error instead of returning.
C21_LeanStrippedApisAbort ==
    (/\ cb_.lean
     /\ lastCB.op \in {"lazyCompile", "getVariableCounts", "getVariableNameAtDepth"})
    => lastCB.fatal

\* C22: findCatchTargetOffset(exceptionOffset) returns -1 exactly when no
\* range of the exception table contains exceptionOffset, and otherwise the
\* handler of a containing range that is narrower than every other containing
\* range, or as wide and registered later.
C22_InnermostHandler ==
    lastCB.op = "findCatchTargetOffset" =>
        LET table == cb_.functionHeader_.exceptionTable
            containing == {i \in DOMAIN table : covers(table[i], lastCB.arg)}
        IN  /\ (lastCB.ret = -1) <=> (containing = {})
            /\ containing # {} =>
                  \E i \in containing :
                      /\ lastCB.ret = table[i].target
                      /\ \A j \in containing \ {i} :
                            \/ width(table[i]) < width(table[j])
                            \/ width(table[i]) = width(table[j]) /\ i > j

\* Two ranges of equal width and different handlers contain the offset, and
\* a wider range registered last contains it too.
C22_Witness ==
    /\ lastCB.op = "findCatchTargetOffset"
    /\ LET table == cb_.functionHeader_.exceptionTable
       IN  /\ Len(table) = 3
           /\ \A i \in 1 .. 3 : covers(table[i], lastCB.arg)
           /\ width(table[1]) = width(table[2])
           /\ width(table[3]) > width(table[2])
           /\ table[1].target # table[2].target
           /\ table[3].target # table[2].target
           /\ lastCB.ret = table[2].target

\* C23: markCachedHiddenClasses passes to the acceptor the hidden-class
\* field of every non-empty entry of the trailing array, read and write
\* segment alike, exactly once, and of no empty entry; all entries of a block
\* nothing has been called on are empty, so a walk of it visits nothing.
C23_EveryNonEmptyEntryVisitedOnce ==
    /\ lastCB.op = "markCachedHiddenClasses" =>
          LET before == lastCB.arg.propertyCache
              visited == lastCB.visited
          IN  /\ \A i \in DOMAIN before :
                    Cardinality({k \in DOMAIN visited : visited[k] = i})
                       = (IF before[i].clazz # NoClass THEN 1 ELSE 0)
              /\ \A k \in DOMAIN visited : visited[k] \in DOMAIN before
    /\ lastCB = NoCB =>
          /\ DOMAIN cb_.propertyCache = 0 .. cb_.propertyCacheSize_ - 1
          /\ \A i \in DOMAIN cb_.propertyCache :
                cb_.propertyCache[i] = PropertyCacheEntryNew
          /\ markCachedHiddenClasses(cb_, {}).visited = <<>>

\* A walk over a cache with a filled and an empty entry in each segment.
C23_Witness ==
    /\ lastCB.op = "markCachedHiddenClasses"
    /\ LET before == lastCB.arg.propertyCache
           ofs == lastCB.arg.writePropCacheOffset_
       IN  /\ \E i, j \in DOMAIN before :
                 /\ i < ofs /\ j < ofs
                 /\ before[i].clazz # NoClass /\ before[j].clazz = NoClass
           /\ \E i, j \in DOMAIN before :
                 /\ i >= ofs /\ j >= ofs
                 /\ before[i].clazz # NoClass /\ before[j].clazz = NoClass
    /\ Len(lastCB.visited) = 2

\* C24: a newBasicBlock leaves every FR with localType equal to its
\* globalType and without local GPR or VecD, every temp register of both
\* pools free and holding no FR, both LRU lists empty, and no value dropped:
\* an FR whose latest value was only in a local register has it in its
\* up-to-date global register, or in its frame slot when it has no global
\* register, and the homes that were up to date still are.
C24_NewBasicBlockResets ==
    [][JitNewBasicBlock =>
          /\ \A fr \in FRs :
                /\ frameRegs_'[fr].globalType = frameRegs_[fr].globalType
                /\ frameRegs_'[fr].globalReg = frameRegs_[fr].globalReg
                /\ frameRegs_'[fr].localType = frameRegs_'[fr].globalType
                /\ LocalsOf(frameRegs_'[fr]) = {}
                /\ OnlyInTemp(EmState, fr) =>
                      IF frameRegs_[fr].globalReg # InvalidHWReg
                      THEN frameRegs_'[fr].globalRegUpToDate
                      ELSE frameRegs_'[fr].frameUpToDate
                /\ frameRegs_[fr].frameUpToDate => frameRegs_'[fr].frameUpToDate
                /\ frameRegs_[fr].globalRegUpToDate => frameRegs_'[fr].globalRegUpToDate
          /\ AllocatedOf(gpTemp_') = {} /\ gpTemp_'.lru_ = <<>>
          /\ AllocatedOf(vecTemp_') = {} /\ vecTemp_'.lru_ = <<>>
          /\ \A hw \in TempGpX \cup TempVecD : hwRegs_'[hw].contains = kInvalid
      ]_vars

\* A basic block ended with the results of two operations in temp registers
\* only: one was folded into its global register, the other stored to its
\* frame slot, and the result type of the block is forgotten.
C24_Witness ==
    /\ lastArith.n = 2
    /\ ~lastArith.sameBlock
    /\ frameRegs_[lastArith.frRes].globalType # FRTypeNumber
    /\ \E fr \in FRs :
          /\ frameRegs_[fr].globalReg # InvalidHWReg
          /\ frameRegs_[fr].globalRegUpToDate
          /\ ~frameRegs_[fr].frameUpToDate
    /\ \E fr \in FRs : frameRegs_[fr].globalReg = InvalidHWReg
    /\ AllocatedOf(vecTemp_) = {}

(***************************************************************************)
(* The unary templates (DECL_UNOP).  A double is an integer here: the       *)
(* additions of the templates are exact on the values used.  arithUnop,    *)
(* whose body is elsewhere, follows the design description: the inline     *)
(* fast path runs on a Number input, any other input goes to the helper.   *)
(***************************************************************************)
MaxNum == 30
Numbers == (0 - MaxNum) .. MaxNum
JSValues == [tag : {"number"}, v : Numbers] \cup [tag : {"object"}, v : {0}]

\* as.fadd(d, s, tmp)
fadd(s, tmp) == s + tmp

\* A plausible slip: the increment template adds 1.0.
incBodyAddsOne(s) ==
    LET tmp == 1
    IN  fadd(s, tmp)

\* The a64body of DECL_UNOP(dec, ...): fmov tmp, -1.0; fadd d, s, tmp.
decBody(s) ==
    LET tmp == 0 - 1
    IN  fadd(s, tmp)

\* The a64body of DECL_UNOP(inc, ...): fmov tmp, -1.0; fadd d, s, tmp.
incBody(s) ==
    LET tmp == 0 - 1
    IN  fadd(s, tmp)

\* fast is what the inline code of the template leaves in the result
\* register when it runs on the input.
arithUnop(forceNumber, input, name, fast, slowCallName) ==
    IF input.tag = "number"
    THEN [op |-> name, input |-> input, path |-> "fast",
          value |-> fast, call |-> "none"]
    ELSE [op |-> name, input |-> input, path |-> "slow",
          value |-> 0, call |-> slowCallName]

dec(input) == arithUnop(FALSE, input, "dec", decBody(input.v), "_sh_ljs_dec_rjs")
inc(input) == arithUnop(FALSE, input, "inc", incBody(input.v), "_sh_ljs_inc_rjs")

InitUn ==
    /\ IdleFA
    /\ IdleTRA
    /\ IdleEm
    /\ IdleRO
    /\ IdleCB
    /\ slowPaths_ = <<>>
    /\ body_ = <<>>
    /\ tail_ = <<>>
    /\ phase_ = "body"
    /\ \E input \in JSValues :
          lastArith = [op |-> "none", input |-> input, path |-> "none",
                       value |-> input.v, call |-> "none"]

\* The operand of the next operation: the result of the last fast path, or
\* the same input again.
NextInput ==
    IF lastArith.input.tag = "number" /\ lastArith.value \in Numbers
    THEN [tag |-> "number", v |-> lastArith.value]
    ELSE lastArith.input

UnDec ==
    /\ lastArith' = dec(NextInput)
    /\ UNCHANGED <<slowPaths_, body_, tail_, phase_,
                   faVars, traVars, emVars, roVars, cbVars>>

UnInc ==
    /\ lastArith' = inc(NextInput)
    /\ UNCHANGED <<slowPaths_, body_, tail_, phase_,
                   faVars, traVars, emVars, roVars, cbVars>>

NextUn ==
    \/ UnDec
    \/ UnInc

SpecUn == InitUn /\ [][NextUn]_vars

\* C25: the fast paths of inc and dec are the same computation, an addition
\* of -1.0: on a Number input n both yield n - 1, and inc yields what dec
\* yields.
C25_IncAndDecBothAddMinusOne ==
    /\ lastArith.op \in {"inc", "dec"} /\ lastArith.path = "fast" =>
          lastArith.value = lastArith.input.v - 1
    /\ lastArith.op = "inc" /\ lastArith.path = "fast" =>
          lastArith.value = dec(lastArith.input).value

\* inc ran its fast path on a Number and produced the number below it.
C25_Witness ==
    /\ lastArith.op = "inc"
    /\ lastArith.path = "fast"
    /\ lastArith.input = [tag |-> "number", v |-> 5]
    /\ lastArith.value = 4

(***************************************************************************)
(* Further claims about the FunctionAnalysis pass, checked under SpecFA.   *)
(***************************************************************************)
\* The users of a Function in the IR: the instructions that name it as
\* their function code or as their target.
FuncUsers(irX, F) ==
    {i \in Insts(irX) : irX[i].functionCode = F \/ irX[i].target = F}

\* The users of instruction c.
UsersOf(irX, c) ==
    {u \in Insts(irX) : \E k \in DOMAIN ValueOperands(irX[u]) :
                            ValueOperands(irX[u])[k] = c}

\* A user u of the reached instruction c that does not make the callsites of
\* F unknown.
HarmlessUser(irX, u, c, F) ==
    \/ /\ irX[u].kind = "Call"
       /\ irX[u].callee = c
       /\ ~EscapesThrough(irX[u], c, F)
    \/ irX[u].kind \in {"ConstructionSetup", "GetClosureScope", "UnionNarrowTrusted"}
    \/ irX[u].kind = "CheckedTypeCast" /\ irX[u].canBeObject
    \/ irX[u].kind = "StoreFrame" /\ isStoreOnceVariable(irX, irX[u].variable)

\* C26: after analyzeFunctionCallsites(F), allCallsitesKnownInStrictMode is
\* true exactly when F is not the global scope, every user of F is a create
\* instruction of F or a call with target F, and every user of every
\* instruction reached by the closure flow is a call of it that does not let
\* it escape, a construction setup, a GetClosureScopeInst, a
\* UnionNarrowTrustedInst, an object-typed CheckedTypeCastInst or a store
\* into a store-once variable.
C26_KnownIffNoEscape ==
    \A F \in Funcs :
        Analyzed(F) =>
            (attrs[F].allCallsitesKnownInStrictMode
             <=>
             /\ ~isGlobalScope(F)
             /\ \A u \in FuncUsers(insts, F) :
                   \/ insts[u].kind = "CreateCallable" /\ insts[u].functionCode = F
                   \/ insts[u].kind = "Call" /\ insts[u].target = F
             /\ \A create \in CreatesOf(insts, F) :
                   \A c \in Flow(insts, create) :
                       \A u \in UsersOf(insts, c) :
                           HarmlessUser(insts, u, c, F))

\* C26 witness: the pass is over, from attributes that were all set; the
\* callsites of a function are known, its closure being stored, loaded back
\* and called through the load, and the call got the function as its target;
\* those of the global scope are not.
C26_Witness ==
    /\ run = 1 /\ pc = NumFuncs
    /\ ~attrs[0].allCallsitesKnownInStrictMode
    /\ attrs1[0].allCallsitesKnownInStrictMode
    /\ \E F \in Funcs :
          /\ attrs[F].allCallsitesKnownInStrictMode
          /\ \E create \in CreatesOf(insts, F) :
                \E c \in Flow(insts, create) :
                    /\ insts[c].kind = "LoadFrame"
                    /\ \E u \in UsersOf(insts, c) :
                          /\ insts[u].kind = "Call"
                          /\ ir0[u].target = NoFunc
                          /\ insts[u].target = F

NoDuplicates(s) == \A i, j \in DOMAIN s : i # j => s[i] # s[j]

\* The work of the last analyzeFunctionCallsites is bounded by the IR: each
\* analyzeCreateCallable call iterated the users of closure-valued
\* instructions only and of none of them twice, there were no more such
\* calls than create instructions, and no instruction is twice on the user
\* list of a function, whatever the analysis appended to it.
WorkIsBounded ==
    /\ \A k \in DOMAIN visits :
          /\ NoDuplicates(visits[k])
          /\ \A j \in DOMAIN visits[k] : visits[k][j] \in ClosureValued(insts)
    /\ Len(visits) <= Cardinality(Creates(insts))
    /\ \A F \in Funcs :
          /\ NoDuplicates(fnUsers[F])
          /\ \A k \in DOMAIN fnUsers[F] : fnUsers[F][k] \in Insts(insts)

KnownScope(irX, c) ==
    IF ScopeKnownAt(irX, c) THEN irX[Root(irX, c)].scope ELSE NullScope

\* The instructions whose users the last analyzeFunctionCallsites iterated
\* for the create instruction.
VisitedFor(create) ==
    UNION {{visits[k][j] : j \in DOMAIN visits[k]} :
              k \in {n \in DOMAIN visits : visits[n][1] = create}}

LoadsOfVar(irX, v) ==
    {l \in Insts(irX) : irX[l].kind = "LoadFrame" /\ irX[l].variable = v}

\* C28: when an instruction reached by the closure flow of a create
\* instruction of the function just analyzed is stored into variable v: if v
\* is not store-once the attribute is false and no load of v was followed;
\* otherwise every load of v was followed, with its own scope operand as the
\* known scope exactly when the scope of the store is the known scope of the
\* closure, and a call through a load followed without a scope, whose
\* environment was empty, has it empty still.
C28_StoreFollowsLoads ==
    pc > 0 =>
        LET F == pc - 1
        IN  \A create \in CreatesOf(insts, F) :
            \A c \in VisitedFor(create) :
            \A store \in UsersOf(insts, c) :
                insts[store].kind = "StoreFrame" =>
                    LET v == insts[store].variable
                    IN  IF ~isStoreOnceVariable(insts, v)
                        THEN /\ ~attrs[F].allCallsitesKnownInStrictMode
                             /\ LoadsOfVar(insts, v) \cap VisitedFor(create) = {}
                        ELSE \A l \in LoadsOfVar(insts, v) :
                                /\ l \in VisitedFor(create)
                                /\ l \in scoped <=>
                                      insts[store].scope = KnownScope(insts, c)
                                /\ \A call \in Calls(insts) :
                                      (/\ l \notin scoped
                                       /\ insts[call].callee \in Insts(insts)
                                       /\ Root(insts, insts[call].callee) = l
                                       /\ ir0[call].environment = EmptySentinel)
                                      => insts[call].environment = EmptySentinel

\* C28 witness: the closure of a function that reads its parent scope was
\* stored with a scope that is not the scope of the create instruction; the
\* load was followed without a scope, and the call through it got its target
\* and no environment.
C28_Witness ==
    /\ pc = 2
    /\ \E create \in CreatesOf(insts, 1) :
          \E store \in UsersOf(insts, create) :
              /\ insts[store].kind = "StoreFrame"
              /\ isStoreOnceVariable(insts, insts[store].variable)
              /\ insts[store].scope # insts[create].scope
              /\ \E l \in LoadsOfVar(insts, insts[store].variable) :
                    /\ l \in VisitedFor(create)
                    /\ l \notin scoped
                    /\ \E call \in Calls(insts) :
                          /\ insts[call].callee = l
                          /\ ir0[call].target = NoFunc
                          /\ insts[call].target = 1
                          /\ insts[call].environment = EmptySentinel

\* C29 as stated: a call whose target (or environment) is not EmptySentinel
\* before the pass has exactly that target (or environment) afterwards.
C29_Original ==
    \A call \in Calls(ir0) :
        /\ ir0[call].target # NoFunc => insts[call].target = ir0[call].target
        /\ ir0[call].environment # EmptySentinel =>
              insts[call].environment = ir0[call].environment

\* C29 as amended: a call whose target is not EmptySentinel before the pass
\* has exactly that target afterwards; a call whose environment is not
\* EmptySentinel before the pass has exactly that environment afterwards,
\* unless the environment is a GetClosureScopeInst of an instruction reached
\* by the closure flow at which the scope is known: then, like every use of
\* that instruction, it is replaced by the known scope.
C29_BoundOperandsKept ==
    \A call \in Calls(ir0) :
        /\ ir0[call].target # NoFunc => insts[call].target = ir0[call].target
        /\ ir0[call].environment # EmptySentinel =>
              \/ insts[call].environment = ir0[call].environment
              \/ /\ ir0[call].environment \in Insts(ir0)
                 /\ ir0[ir0[call].environment].kind = "GetClosureScope"
                 /\ \E create \in Creates(insts) :
                       \E c \in Flow(insts, create) :
                           /\ Analyzed(insts[create].functionCode)
                           /\ ir0[ir0[call].environment].value = c
                           /\ ScopeKnownAt(insts, c)
                           /\ insts[call].environment = KnownScope(insts, c)

\* C29 witness: the pass is over; the environment of a call whose callee is
\* reached by the closure flow was a GetClosureScopeInst of the closure and
\* is the scope of the create instruction.
C29_Witness ==
    /\ run = 1 /\ pc = NumFuncs
    /\ \E call \in Calls(insts) :
          \E create \in Creates(insts) :
              /\ insts[call].callee \in Flow(insts, create)
              /\ ir0[call].environment \in Insts(ir0)
              /\ ir0[ir0[call].environment].kind = "GetClosureScope"
              /\ ir0[ir0[call].environment].value = create
              /\ insts[call].environment = insts[create].scope

\* C30: analyzeFunctionCallsites(F) writes the attributes of F only: for
\* every other function G, G.allCallsitesKnownInStrictMode and G.unreachable
\* are after the call what they were before it.
C30_OnlyAttributesOfF ==
    [][FAAnalyze => \A G \in Funcs \ {pc} : attrs'[G] = attrs[G]]_vars

\* C30 witness: the analysis of function 1 has set both of its attributes,
\* which were false, and those of function 2 are false still, although a
\* create instruction of function 2 was in the module.
C30_Witness ==
    /\ run = 1 /\ pc = 2
    /\ attrs1[1] = FalseAttrs
    /\ attrs[1] = TrueAttrs
    /\ attrs[2] = FalseAttrs
    /\ CreatesOf(insts, 1) # {}
    /\ CreatesOf(insts, 2) # {}

MappedOf(ra) == {ra.first_ + i : i \in {k \in DOMAIN ra.map_ : ra.map_[k] # NullNode}}

\* C32: after any sequence of alloc, use and free, on either allocator the
\* pool registers whose availability bit is cleared, the registers with a
\* non-null map_ entry and the registers in the LRU list are the same set
\* (and the list holds none twice); availBits_ has no bit outside the pool
\* range; and a use of a free register changes nothing.
C32_ThreeViewsCoincide ==
    /\ \A p \in Pools :
          LET ra == PoolRA(p)
          IN  /\ AllocatedOf(ra) = MappedOf(ra)
              /\ MappedOf(ra) = Range(ra.lru_)
              /\ Len(ra.lru_) = Cardinality(Range(ra.lru_))
              /\ ra.availBits_ \subseteq PoolRange(p)
    /\ (last.op = "use" /\ last.arg \in FreeOf(last.pre)) =>
          PoolRA(last.pool) = last.pre

\* C32 witness: use() was called on a free register of a pool that holds
\* another register.
C32_Witness ==
    /\ last.op = "use"
    /\ last.arg \in FreeOf(last.pre)
    /\ AllocatedOf(last.pre) # {}
    /\ last.arg \notin AllocatedOf(PoolRA(last.pool))
    /\ PoolRA(last.pool).lru_ # <<>>

(***************************************************************************)
(* Further claims about the Emitter's registers, checked under SpecEm.     *)
(***************************************************************************)
\* xRuntime, xFrame, xDoubleLim, and the register of the return value
\* ("Return value will be in x22", "Save the return value in x22").
xRuntime == 19
xFrame == 20
xDoubleLim == 21
xReturnValue == 22
FixedRoleRegs == {gpX(xRuntime), gpX(xFrame), gpX(xDoubleLim), gpX(xReturnValue)}

\* kGPTemp.second, kGPSaved.second, kVecTemp.second, kVecSaved.second
GPTempLast == 15
GPSavedLast == 28
VecTempLast == 31
VecSavedLast == 15

\* The four register windows, in full.
GPTempWindow == {gpX(i) : i \in GPTempFirst .. GPTempLast}
GPSavedWindow == {gpX(i) : i \in GPSavedFirst .. GPSavedLast}
VecTempWindow == {vecD(i) : i \in VecTempFirst .. VecTempLast}
VecSavedWindow == {vecD(i) : i \in VecSavedFirst .. VecSavedLast}

\* C33: no register with a fixed role (x19, x20, x21, x22) is a home of a
\* frame register; the GPR temp window and the GPR callee-saved window are
\* disjoint and hold none of the four; the VecD temp and callee-saved
\* windows are disjoint.
C33_FixedRoleRegistersNeverHomes ==
    /\ \A fr \in FRs : HomesOf(frameRegs_[fr]) \cap FixedRoleRegs = {}
    /\ GPTempWindow \cap GPSavedWindow = {}
    /\ (GPTempWindow \cup GPSavedWindow) \cap FixedRoleRegs = {}
    /\ VecTempWindow \cap VecSavedWindow = {}

(***************************************************************************)
(* The cache accessors with caches longer than their index type.  The      *)
(* sizes are uint32_t members; the accessors take a uint8_t idx, so the    *)
(* index a caller passes is converted to 8 bits at the call.               *)
(***************************************************************************)
\* The number of values of uint8_t.
UInt8Values == 256
\* How far below and above UInt8Values the lengths and indices drawn go.
MaxWide == 2

\* The conversion of an unsigned integer to uint8_t.
uint8(i) == i % UInt8Values

WideSizes == (UInt8Values - MaxWide) .. (UInt8Values + MaxWide)
WideIdxs == (0 .. MaxWide) \cup WideSizes

InitCW ==
    /\ IdleFA
    /\ IdleTRA
    /\ IdleEm
    /\ IdleJit
    /\ IdleRO
    /\ lastCB = NoCB
    /\ \E readCacheSize \in WideSizes : \E writeCacheSize \in WideSizes :
          cb_ = createCodeBlock(FALSE,
                    [bytecodeSizeInBytes |-> 1, readCacheSize |-> readCacheSize,
                     writeCacheSize |-> writeCacheSize, exceptionTable |-> <<>>],
                    64, 0)

\* A caller asks for entry i of the read cache; arg is the entry asked for.
CWGetReadCacheEntry ==
    \E i \in WideIdxs :
        /\ i < cb_.writePropCacheOffset_
        /\ LET r == getReadCacheEntry(cb_, uint8(i))
           IN  lastCB' = [op |-> "getReadCacheEntry", arg |-> i,
                          ok |-> r.ok, ret |-> r.ret]
        /\ UNCHANGED <<cb_, faVars, traVars, emVars, jitVars, roVars>>

\* A caller asks for entry j of the write cache.
CWGetWriteCacheEntry ==
    \E j \in WideIdxs :
        /\ cb_.writePropCacheOffset_ + j < cb_.propertyCacheSize_
        /\ LET r == getWriteCacheEntry(cb_, uint8(j))
           IN  lastCB' = [op |-> "getWriteCacheEntry", arg |-> j,
                          ok |-> r.ok, ret |-> r.ret]
        /\ UNCHANGED <<cb_, faVars, traVars, emVars, jitVars, roVars>>

NextCW ==
    \/ CWGetReadCacheEntry
    \/ CWGetWriteCacheEntry

SpecCW == InitCW /\ [][NextCW]_vars

\* C34: every entry of the property cache is reached through the accessors,
\* whatever the cache sizes: asked for entry i < writePropCacheOffset,
\* getReadCacheEntry returns slot i, and asked for entry j with
\* writePropCacheOffset + j < propertyCacheSize, getWriteCacheEntry returns
\* slot writePropCacheOffset + j.
C34_EveryEntryAddressable ==
    /\ lastCB.op = "getReadCacheEntry" =>
          lastCB.ok /\ lastCB.ret = lastCB.arg
    /\ lastCB.op = "getWriteCacheEntry" =>
          lastCB.ok /\ lastCB.ret = cb_.writePropCacheOffset_ + lastCB.arg

\* The latest value of the frame register is somewhere: in the frame, in
\* the up-to-date global register, or in a local register.
HasLatestHome(frs) ==
    \/ frs.frameUpToDate
    \/ frs.globalReg # InvalidHWReg /\ frs.globalRegUpToDate
    \/ LocalsOf(frs) # {}

\* C35: after any sequence of movHWFromFR, movFRFromHW, syncToMem, freeReg,
\* spillTempReg and newBasicBlock every frame register has a home holding
\* its latest value (the frame, the up-to-date global register, or a local
\* register); and a freeReg or spillTempReg that takes the last local
\* register of a frame register leaves its latest value in the frame or in
\* the up-to-date global register.
C35_LatestValueHasHome ==
    /\ [](\A fr \in FRs : HasLatestHome(frameRegs_[fr]))
    /\ [][(EmFreeReg \/ EmSpillTempReg) =>
             \A fr \in FRs :
                 (LocalsOf(frameRegs_[fr]) # {} /\ LocalsOf(frameRegs_'[fr]) = {})
                 => \/ frameRegs_'[fr].frameUpToDate
                    \/ /\ frameRegs_'[fr].globalReg # InvalidHWReg
                       /\ frameRegs_'[fr].globalRegUpToDate]_vars

\* C35 witness: a frame register written through a temp register (its
\* global register is stale) has lost the temp register and has its latest
\* value in the frame, while another frame register has its latest value in
\* a local register only.
C35_Witness ==
    \E f1 \in FRs : \E f2 \in FRs \ {f1} :
        /\ frameRegs_[f1].globalReg # InvalidHWReg
        /\ ~frameRegs_[f1].globalRegUpToDate
        /\ LocalsOf(frameRegs_[f1]) = {}
        /\ frameRegs_[f1].frameUpToDate
        /\ LocalsOf(frameRegs_[f2]) # {}
        /\ ~frameRegs_[f2].frameUpToDate
        /\ ~frameRegs_[f2].globalRegUpToDate

=============================================================================
